---- MODULE Spec2Model ----
(***************************************************************************)
(* Model of the Odoo artwork uploader: the artwork.project / artwork.logo  *)
(* / artwork.canvas.element tables, the JSON/HTTP controller that edits    *)
(* them, and OdooPDFGenerator, which turns a project snapshot into the     *)
(* two-page production PDF.                                                *)
(*                                                                         *)
(* Python values are modelled as follows.  A dict is a record; a key that  *)
(* is absent from a dict holds the value Absent.  An Odoo Char field that  *)
(* is unset reads as False, which is falsy like the empty string: both are *)
(* the string "".  An integer id is IntId(n) and str(id) is StrId(n), so   *)
(* that '5' == 5 is false as in Python.  Paths are strings.                *)
(***************************************************************************)
EXTENDS Integers, Sequences, FiniteSets, TLC

VARIABLES
    projects,   \* artwork.project rows: id -> record
    logos,      \* artwork.logo rows: id -> record
    elements,   \* artwork.canvas.element rows: id -> record
    nextId,     \* the id sequences of the three tables
    gen,        \* per request: the OdooPDFGenerator instance it runs and its outcome
    flow,       \* the last ColorWorkflowManager call: its arguments and its result
    fs          \* the paths that exist under /tmp

vars == <<projects, logos, elements, nextId, gen, fs, flow>>

-----------------------------------------------------------------------------
(* Bounds *)

MaxProjects == 2      \* project ids 1..MaxProjects
MaxLogos    == 1      \* logo ids 1..MaxLogos
MaxElementId == 1     \* canvas element ids 1..MaxElementId
MaxElems    == 2      \* longest canvas_elements list of a direct snapshot
MaxConcElems == 1     \* longest canvas_elements list of a snapshot generated concurrently
MaxDirs     == 2      \* names mkdtemp can choose from
MaxPlaceElems == 1    \* longest canvas_elements list of a placement snapshot
MaxLifeProjects == 1  \* project ids of the lifecycle runs
MaxCanvasProjects == 2 \* project ids of the canvas runs
MaxCanvasIds == 4     \* canvas element ids of the canvas runs
MaxSaveLen  == 2      \* longest element list one canvas save submits in the canvas runs
MaxLogoRows == 2      \* logo ids of the upload runs
MaxLockElems == 1     \* longest canvas_elements list of a snapshot with lock flags

Gens == {1, 2}        \* the requests that can run a generation, each served once

-----------------------------------------------------------------------------
(* Python values *)

Absent == "<absent>"

IntId(n) == [t |-> "int", v |-> n]
StrId(n) == [t |-> "str", v |-> n]

\* dict.get(key, default)
Get(value, default) == IF value = Absent THEN default ELSE value

\* truthiness of a string-or-False value
Truthy(s) == s # "" /\ s # Absent

\* the orders in which a Python set of strings can be iterated
Orders(S) == {p \in [1..Cardinality(S) -> S] : \A i, j \in 1..Cardinality(S) : i # j => p[i] # p[j]}

-----------------------------------------------------------------------------
(* Colour strings *)

\* str.upper() on the colour strings of the model
Upper(s) ==
    CASE s = "#ff0000"     -> "#FF0000"
      [] s = "transparent" -> "TRANSPARENT"
      [] s = "default"     -> "DEFAULT"
      [] s = "notacolor"   -> "NOTACOLOR"
      [] OTHER             -> s

\* reportlab HexColor(s) succeeds on '#' followed by hexadecimal digits
HexColorOk(s) == s \in {"#FF0000", "#ff0000", "#00FF00", "#000000"}

\* GARMENT_COLORS entries for the colour strings of the model
GARMENT_COLORS == <<
    [name |-> "Black", hex |-> "#000000", cmyk |-> [c |-> 0, m |-> 0, y |-> 0, k |-> 100]],
    [name |-> "Red", hex |-> "#FF0000", cmyk |-> [c |-> 0, m |-> 100, y |-> 100, k |-> 0]],
    [name |-> "Irish Green", hex |-> "#00FF00", cmyk |-> [c |-> 100, m |-> 0, y |-> 100, k |-> 0]] >>

NoColorEntry == [name |-> "", hex |-> "", cmyk |-> [c |-> 0, m |-> 0, y |-> 0, k |-> 0]]

\* GarmentColorManager.find_color_by_hex: first entry whose hex matches, ignoring case
find_color_by_hex(hex_color) ==
    LET hits == {i \in 1..Len(GARMENT_COLORS) : Upper(GARMENT_COLORS[i].hex) = Upper(hex_color)}
    IN  IF hits = {} THEN NoColorEntry
        ELSE GARMENT_COLORS[CHOOSE i \in hits : \A j \in hits : i <= j]

\* GarmentColorManager.get_cmyk_string
get_cmyk_string(color_info) ==
    "C:" \o ToString(color_info.cmyk.c) \o " M:" \o ToString(color_info.cmyk.m)
        \o " Y:" \o ToString(color_info.cmyk.y) \o " K:" \o ToString(color_info.cmyk.k)

-----------------------------------------------------------------------------
(* ColorWorkflowManager.  A FileType member is its value string; a dict    *)
(* entry is "true", "false" or Absent.                                     *)

FileTypes ==
    {"vector-svg", "vector-pdf", "vector-ai", "vector-eps",
     "raster-png", "raster-jpeg", "mixed-content", "unknown"}

\* ColorWorkflowManager.is_vector_file
is_vector_file(file_type) == file_type \in {"vector-svg", "vector-pdf", "vector-ai", "vector-eps"}

\* ColorWorkflowManager.is_raster_file
is_raster_file(file_type) == file_type \in {"raster-png", "raster-jpeg"}

\* a decision that looks at the colours only
should_preserve_cmykAnyType(file_type, has_cmyk_colors) == has_cmyk_colors

\* ColorWorkflowManager.should_preserve_cmyk
should_preserve_cmyk(file_type, has_cmyk_colors) ==
    IF ~is_vector_file(file_type) THEN FALSE ELSE has_cmyk_colors

\* options that let every file be rasterized
get_workflow_optionsRasterize(file_type, has_cmyk_colors) ==
    IF is_vector_file(file_type)
    THEN [preserve_cmyk |-> should_preserve_cmyk(file_type, has_cmyk_colors),
          convert_to_cmyk |-> ~has_cmyk_colors,
          allow_raster_conversion |-> TRUE]
    ELSE [preserve_cmyk |-> FALSE, convert_to_cmyk |-> TRUE, allow_raster_conversion |-> TRUE]

\* ColorWorkflowManager.get_workflow_options
get_workflow_options(file_type, has_cmyk_colors) ==
    IF is_vector_file(file_type)
    THEN [preserve_cmyk |-> should_preserve_cmyk(file_type, has_cmyk_colors),
          convert_to_cmyk |-> ~has_cmyk_colors,
          allow_raster_conversion |-> FALSE]
    ELSE [preserve_cmyk |-> FALSE, convert_to_cmyk |-> TRUE, allow_raster_conversion |-> TRUE]

Tri == {"true", "false", "<absent>"}

\* truthiness of dict.get(key) for a boolean entry
Holds(v) == v = "true"

RasterizedVector == "Vector file should not be rasterized"
PreserveWithoutCmyk == "Cannot preserve CMYK on file without CMYK colors"
PreserveAndConvert == "Cannot both preserve and convert CMYK"

\* a validation that applies the first two rules only
validate_color_workflowTwoChecks(file_type, color_data, workflow_options) ==
    (IF is_vector_file(file_type) /\ Holds(workflow_options.allow_raster_conversion)
     THEN <<RasterizedVector>> ELSE <<>>)
    \o (IF Holds(workflow_options.preserve_cmyk) /\ ~Holds(color_data.has_cmyk)
        THEN <<PreserveWithoutCmyk>> ELSE <<>>)

\* ColorWorkflowManager.validate_color_workflow
validate_color_workflow(file_type, color_data, workflow_options) ==
    (IF is_vector_file(file_type) /\ Holds(workflow_options.allow_raster_conversion)
     THEN <<RasterizedVector>> ELSE <<>>)
    \o (IF Holds(workflow_options.preserve_cmyk) /\ ~Holds(color_data.has_cmyk)
        THEN <<PreserveWithoutCmyk>> ELSE <<>>)
    \o (IF Holds(workflow_options.preserve_cmyk) /\ Holds(workflow_options.convert_to_cmyk)
        THEN <<PreserveAndConvert>> ELSE <<>>)

-----------------------------------------------------------------------------
(* Text that the code takes apart (a filename, a hex colour) is a sequence *)
(* of one-character strings.                                               *)

UpperLetters ==
    <<"A", "B", "C", "D", "E", "F", "G", "H", "I", "J", "K", "L", "M",
      "N", "O", "P", "Q", "R", "S", "T", "U", "V", "W", "X", "Y", "Z">>

LowerLetters ==
    <<"a", "b", "c", "d", "e", "f", "g", "h", "i", "j", "k", "l", "m",
      "n", "o", "p", "q", "r", "s", "t", "u", "v", "w", "x", "y", "z">>

\* str.lower, one character
LowerChar(ch) ==
    IF \E i \in 1..26 : UpperLetters[i] = ch
    THEN LowerLetters[CHOOSE i \in 1..26 : UpperLetters[i] = ch]
    ELSE ch

\* str.upper, one character
UpperChar(ch) ==
    IF \E i \in 1..26 : LowerLetters[i] = ch
    THEN UpperLetters[CHOOSE i \in 1..26 : LowerLetters[i] = ch]
    ELSE ch

\* str.lower
lower(s) == [i \in 1..Len(s) |-> LowerChar(s[i])]

\* str.upper
upper(s) == [i \in 1..Len(s) |-> UpperChar(s[i])]

\* s.split(sep)[-1]: what follows the last sep, the whole of s when it has none
LastPart(s, sep) ==
    LET at == {i \in 1..Len(s) : s[i] = sep}
    IN  IF at = {} THEN s
        ELSE SubSeq(s, (CHOOSE i \in at : \A j \in at : j <= i) + 1, Len(s))

\* s.lstrip(ch): s without its leading run of ch
lstrip(s, ch) ==
    LET kept == {i \in 1..Len(s) : s[i] # ch}
    IN  IF kept = {} THEN <<>>
        ELSE SubSeq(s, CHOOSE i \in kept : \A j \in kept : i <= j, Len(s))

\* the Python slice s[a:b] for 0 <= a <= b: it stops at the end of s and never raises
Slice(s, a, b) == SubSeq(s, a + 1, IF b < Len(s) THEN b ELSE Len(s))

\* the mime types of mime_type_mapping, in its order
MimeTypes ==
    <<"image/svg+xml", "application/pdf", "application/postscript", "application/illustrator",
      "application/x-illustrator", "image/png", "image/jpeg", "image/jpg">>

mime_type_mapping ==
    [m \in {MimeTypes[i] : i \in 1..Len(MimeTypes)} |->
        CASE m = "image/svg+xml"             -> "vector-svg"
          [] m = "application/pdf"           -> "vector-pdf"
          [] m = "application/postscript"    -> "vector-eps"
          [] m = "application/illustrator"   -> "vector-ai"
          [] m = "application/x-illustrator" -> "vector-ai"
          [] m = "image/png"                 -> "raster-png"
          [] m = "image/jpeg"                -> "raster-jpeg"
          [] m = "image/jpg"                 -> "raster-jpeg"]

\* extension_mapping.get(extension, FileType.UNKNOWN)
extension_mapping(extension) ==
    CASE extension = <<"s", "v", "g">>      -> "vector-svg"
      [] extension = <<"p", "d", "f">>      -> "vector-pdf"
      [] extension = <<"a", "i">>           -> "vector-ai"
      [] extension = <<"e", "p", "s">>      -> "vector-eps"
      [] extension = <<"p", "n", "g">>      -> "raster-png"
      [] extension = <<"j", "p", "g">>      -> "raster-jpeg"
      [] extension = <<"j", "p", "e", "g">> -> "raster-jpeg"
      [] OTHER                              -> "unknown"

\* the extension that get_file_type takes from the filename
Extension(filename) ==
    IF \E i \in 1..Len(filename) : filename[i] = "." THEN LastPart(lower(filename), ".") ELSE <<>>

\* a lookup that never consults the extension for a known mime type
get_file_typeMimeOnly(mime_type, filename) ==
    IF mime_type \in DOMAIN mime_type_mapping
    THEN mime_type_mapping[mime_type]
    ELSE extension_mapping(Extension(filename))

\* ColorWorkflowManager.get_file_type
get_file_type(mime_type, filename) ==
    IF mime_type \in DOMAIN mime_type_mapping
    THEN IF mime_type \in {"application/postscript", "application/illustrator"}
         THEN IF Extension(filename) = <<"a", "i">> THEN "vector-ai" ELSE "vector-eps"
         ELSE mime_type_mapping[mime_type]
    ELSE extension_mapping(Extension(filename))

-----------------------------------------------------------------------------
(* Colour arithmetic.  A float in [0, 1] is the exact fraction it stands   *)
(* for; round() of a fraction that lies exactly halfway between two        *)
(* integers goes either way, since binary floating point decides it.       *)

HexDigits ==
    <<"0", "1", "2", "3", "4", "5", "6", "7", "8", "9", "a", "b", "c", "d", "e", "f">>

IsHexDigit(ch) == \E i \in 1..16 : HexDigits[i] = LowerChar(ch)

DigitValue(ch) == (CHOOSE i \in 1..16 : HexDigits[i] = LowerChar(ch)) - 1

\* int(s, 16) of a slice of at most two characters: blanks around it and a
\* sign before it are accepted, anything else but hexadecimal digits is a
\* ValueError (ok = FALSE)
int16(s) ==
    LET kept == {i \in 1..Len(s) : s[i] # " "}
        t == IF kept = {} THEN <<>>
             ELSE SubSeq(s, CHOOSE i \in kept : \A j \in kept : i <= j,
                            CHOOSE i \in kept : \A j \in kept : j <= i)
        signed == Len(t) > 0 /\ t[1] \in {"+", "-"}
        digits == IF signed THEN Tail(t) ELSE t
        ok == Len(digits) > 0 /\ \A i \in 1..Len(digits) : IsHexDigit(digits[i])
        magnitude == IF Len(digits) = 1 THEN DigitValue(digits[1])
                     ELSE 16 * DigitValue(digits[1]) + DigitValue(digits[2])
    IN  [ok |-> ok,
         value |-> IF ~ok THEN 0 ELSE IF signed /\ t[1] = "-" THEN 0 - magnitude ELSE magnitude]

\* round(num / den): the integers it can give
Round(num, den) ==
    LET n == IF den > 0 THEN num ELSE 0 - num
        d == IF den > 0 THEN den ELSE 0 - den
        q == n \div d
        twice == 2 * (n - q * d)
    IN  IF twice < d THEN {q} ELSE IF twice > d THEN {q + 1} ELSE {q, q + 1}

\* a call that returns cmyk
Returned(cmyk) == [raised |-> "none", cmyk |-> cmyk]

\* a conversion that scales the channels to 0..255
rgb_to_cmykBytes(r, g, b) ==
    IF r = 0 /\ g = 0 /\ b = 0 THEN {Returned(<<0, 0, 0, 100>>)}
    ELSE LET c == 255 - r
             m == 255 - g
             y == 255 - b
             k == IF c <= m /\ c <= y THEN c ELSE IF m <= y THEN m ELSE y
         IN  IF k = 255 THEN {Returned(<<0, 0, 0, kk>>) : kk \in Round(255 * k, 255)}
             ELSE IF 255 - k = 0 THEN {[raised |-> "ZeroDivisionError", cmyk |-> <<>>]}
             ELSE {Returned(<<cc, mm, yy, kk>>) :
                       cc \in Round(255 * (c - k), 255 - k), mm \in Round(255 * (m - k), 255 - k),
                       yy \in Round(255 * (y - k), 255 - k), kk \in Round(255 * k, 255)}

\* ColorWorkflowManager.rgb_to_cmyk: the outcomes of one call; c, m, y and k
\* are the numerators over 255 of the floats of the code
rgb_to_cmyk(r, g, b) ==
    IF r = 0 /\ g = 0 /\ b = 0 THEN {Returned(<<0, 0, 0, 100>>)}
    ELSE LET c == 255 - r
             m == 255 - g
             y == 255 - b
             k == IF c <= m /\ c <= y THEN c ELSE IF m <= y THEN m ELSE y
         IN  IF k = 255 THEN {Returned(<<0, 0, 0, kk>>) : kk \in Round(100 * k, 255)}
             ELSE IF 255 - k = 0 THEN {[raised |-> "ZeroDivisionError", cmyk |-> <<>>]}
             ELSE {Returned(<<cc, mm, yy, kk>>) :
                       cc \in Round(100 * (c - k), 255 - k), mm \in Round(100 * (m - k), 255 - k),
                       yy \in Round(100 * (y - k), 255 - k), kk \in Round(100 * k, 255)}

\* ColorWorkflowManager.hex_to_cmyk: the outcomes of one call
hex_to_cmyk(hex_color) ==
    LET h == lstrip(hex_color, "#")
        r == int16(Slice(h, 0, 2))
        g == int16(Slice(h, 2, 4))
        b == int16(Slice(h, 4, 6))
    IN  IF r.ok /\ g.ok /\ b.ok THEN rgb_to_cmyk(r.value, g.value, b.value)
        ELSE {Returned(<<0, 0, 0, 100>>)}

\* GarmentColorManager.get_all_colors: the manufacturer colours of GARMENT_COLORS, then
\* SPECIALIZED_COLORS, in dict order
get_all_colors == <<
    [name |-> "Black", hex |-> <<"#", "0", "0", "0", "0", "0", "0">>, cmyk |-> <<0, 0, 0, 100>>],
    [name |-> "White", hex |-> <<"#", "F", "F", "F", "F", "F", "F">>, cmyk |-> <<0, 0, 0, 0>>],
    [name |-> "Ash", hex |-> <<"#", "B", "8", "B", "8", "B", "8">>, cmyk |-> <<0, 0, 0, 28>>],
    [name |-> "Sport Grey", hex |-> <<"#", "8", "C", "8", "C", "8", "C">>, cmyk |-> <<0, 0, 0, 45>>],
    [name |-> "Dark Heather", hex |-> <<"#", "6", "1", "6", "1", "6", "1">>, cmyk |-> <<0, 0, 0, 62>>],
    [name |-> "Red", hex |-> <<"#", "F", "F", "0", "0", "0", "0">>, cmyk |-> <<0, 100, 100, 0>>],
    [name |-> "Cardinal Red", hex |-> <<"#", "B", "7", "1", "2", "3", "4">>, cmyk |-> <<0, 90, 71, 28>>],
    [name |-> "Cherry Red", hex |-> <<"#", "C", "5", "2", "8", "2", "F">>, cmyk |-> <<0, 84, 76, 23>>],
    [name |-> "Orange", hex |-> <<"#", "F", "F", "8", "C", "0", "0">>, cmyk |-> <<0, 45, 100, 0>>],
    [name |-> "Gold", hex |-> <<"#", "F", "F", "D", "7", "0", "0">>, cmyk |-> <<0, 16, 100, 0>>],
    [name |-> "Yellow Haze", hex |-> <<"#", "F", "F", "F", "F", "9", "9">>, cmyk |-> <<0, 0, 40, 0>>],
    [name |-> "Daisy", hex |-> <<"#", "F", "F", "F", "F", "0", "0">>, cmyk |-> <<0, 0, 100, 0>>],
    [name |-> "Royal Blue", hex |-> <<"#", "0", "0", "4", "7", "A", "B">>, cmyk |-> <<100, 58, 0, 33>>],
    [name |-> "Navy", hex |-> <<"#", "0", "0", "0", "0", "8", "0">>, cmyk |-> <<100, 100, 0, 50>>],
    [name |-> "Irish Green", hex |-> <<"#", "0", "0", "F", "F", "0", "0">>, cmyk |-> <<100, 0, 100, 0>>],
    [name |-> "Forest Green", hex |-> <<"#", "2", "2", "8", "B", "2", "2">>, cmyk |-> <<76, 0, 76, 45>>],
    [name |-> "Purple", hex |-> <<"#", "8", "0", "0", "0", "8", "0">>, cmyk |-> <<0, 100, 0, 50>>],
    [name |-> "Heliconia", hex |-> <<"#", "F", "F", "1", "4", "9", "3">>, cmyk |-> <<0, 92, 42, 0>>],
    [name |-> "Safety Pink", hex |-> <<"#", "F", "F", "6", "9", "B", "4">>, cmyk |-> <<0, 59, 29, 0>>],
    [name |-> "Safety Orange", hex |-> <<"#", "F", "F", "4", "5", "0", "0">>, cmyk |-> <<0, 73, 100, 0>>],
    [name |-> "Safety Green", hex |-> <<"#", "3", "2", "C", "D", "3", "2">>, cmyk |-> <<75, 0, 75, 20>>],
    [name |-> "Maroon", hex |-> <<"#", "8", "0", "0", "0", "0", "0">>, cmyk |-> <<0, 100, 100, 50>>],
    [name |-> "Brown", hex |-> <<"#", "A", "5", "2", "A", "2", "A">>, cmyk |-> <<0, 74, 74, 35>>],
    [name |-> "Tan", hex |-> <<"#", "D", "2", "B", "4", "8", "C">>, cmyk |-> <<0, 14, 33, 18>>],
    [name |-> "Light Blue", hex |-> <<"#", "A", "D", "D", "8", "E", "6">>, cmyk |-> <<24, 6, 0, 10>>],
    [name |-> "Light Pink", hex |-> <<"#", "F", "F", "B", "6", "C", "1">>, cmyk |-> <<0, 29, 24, 0>>],
    [name |-> "Natural", hex |-> <<"#", "F", "5", "F", "5", "D", "C">>, cmyk |-> <<0, 0, 10, 4>>],
    [name |-> "Black", hex |-> <<"#", "0", "0", "0", "0", "0", "0">>, cmyk |-> <<0, 0, 0, 100>>],
    [name |-> "White", hex |-> <<"#", "F", "F", "F", "F", "F", "F">>, cmyk |-> <<0, 0, 0, 0>>],
    [name |-> "Heather Grey", hex |-> <<"#", "D", "3", "D", "3", "D", "3">>, cmyk |-> <<0, 0, 0, 17>>],
    [name |-> "Red", hex |-> <<"#", "F", "F", "0", "0", "0", "0">>, cmyk |-> <<0, 100, 100, 0>>],
    [name |-> "Navy", hex |-> <<"#", "0", "0", "0", "0", "8", "0">>, cmyk |-> <<100, 100, 0, 50>>],
    [name |-> "Royal Blue", hex |-> <<"#", "4", "1", "6", "9", "E", "1">>, cmyk |-> <<74, 58, 0, 12>>],
    [name |-> "Kelly Green", hex |-> <<"#", "4", "C", "B", "B", "1", "7">>, cmyk |-> <<70, 0, 87, 27>>],
    [name |-> "Purple", hex |-> <<"#", "8", "0", "0", "0", "8", "0">>, cmyk |-> <<0, 100, 0, 50>>],
    [name |-> "Orange", hex |-> <<"#", "F", "F", "A", "5", "0", "0">>, cmyk |-> <<0, 35, 100, 0>>],
    [name |-> "Yellow", hex |-> <<"#", "F", "F", "F", "F", "0", "0">>, cmyk |-> <<0, 0, 100, 0>>],
    [name |-> "Sky Blue", hex |-> <<"#", "8", "7", "C", "E", "E", "B">>, cmyk |-> <<43, 16, 0, 8>>],
    [name |-> "Pink", hex |-> <<"#", "F", "F", "C", "0", "C", "B">>, cmyk |-> <<0, 25, 20, 0>>],
    [name |-> "Lime Green", hex |-> <<"#", "3", "2", "C", "D", "3", "2">>, cmyk |-> <<75, 0, 75, 20>>],
    [name |-> "Burgundy", hex |-> <<"#", "8", "0", "0", "0", "2", "0">>, cmyk |-> <<0, 100, 75, 50>>],
    [name |-> "Forest Green", hex |-> <<"#", "2", "2", "8", "B", "2", "2">>, cmyk |-> <<76, 0, 76, 45>>],
    [name |-> "Hi-Viz Orange", hex |-> <<"#", "F", "F", "6", "6", "0", "0">>, cmyk |-> <<0, 60, 100, 0>>],
    [name |-> "Hi-Viz Yellow", hex |-> <<"#", "F", "F", "F", "F", "0", "0">>, cmyk |-> <<0, 0, 100, 0>>],
    [name |-> "Hi-Viz Green", hex |-> <<"#", "0", "0", "F", "F", "0", "0">>, cmyk |-> <<100, 0, 100, 0>>],
    [name |-> "Hi-Viz Pink", hex |-> <<"#", "F", "F", "1", "4", "9", "3">>, cmyk |-> <<0, 92, 42, 0>>],
    [name |-> "Pastel Blue", hex |-> <<"#", "B", "8", "E", "6", "F", "F">>, cmyk |-> <<28, 10, 0, 0>>],
    [name |-> "Pastel Pink", hex |-> <<"#", "F", "F", "D", "1", "D", "C">>, cmyk |-> <<0, 18, 14, 0>>],
    [name |-> "Pastel Yellow", hex |-> <<"#", "F", "F", "F", "F", "9", "9">>, cmyk |-> <<0, 0, 40, 0>>],
    [name |-> "Pastel Green", hex |-> <<"#", "9", "0", "E", "E", "9", "0">>, cmyk |-> <<43, 0, 43, 7>>],
    [name |-> "Pastel Purple", hex |-> <<"#", "D", "D", "A", "0", "D", "D">>, cmyk |-> <<13, 28, 0, 13>>],
    [name |-> "Metallic Gold", hex |-> <<"#", "F", "F", "D", "7", "0", "0">>, cmyk |-> <<0, 16, 100, 0>>],
    [name |-> "Metallic Silver", hex |-> <<"#", "C", "0", "C", "0", "C", "0">>, cmyk |-> <<0, 0, 0, 25>>],
    [name |-> "Glow in Dark", hex |-> <<"#", "F", "0", "F", "8", "F", "F">>, cmyk |-> <<6, 3, 0, 0>>],
    [name |-> "Reflective", hex |-> <<"#", "E", "5", "E", "5", "E", "5">>, cmyk |-> <<0, 0, 0, 10>>] >>

\* GarmentColorManager.hex_to_rgb: <<>> stands for None
hex_to_rgb(hex_color) ==
    LET h == lstrip(hex_color, "#")
        r == int16(Slice(h, 0, 2))
        g == int16(Slice(h, 2, 4))
        b == int16(Slice(h, 4, 6))
    IN  IF r.ok /\ g.ok /\ b.ok THEN <<r.value, g.value, b.value>> ELSE <<>>

\* GarmentColorManager.color_distance, squared: the code compares the square
\* roots, which order these sums as the sums themselves are ordered
color_distance(rgb1, rgb2) ==
    (rgb1[1] - rgb2[1]) * (rgb1[1] - rgb2[1]) + (rgb1[2] - rgb2[2]) * (rgb1[2] - rgb2[2])
        + (rgb1[3] - rgb2[3]) * (rgb1[3] - rgb2[3])

\* the loop of find_closest_color from entry i on; closest_color is the index
\* of the entry held so far, 0 for None, when min_distance is still infinite
RECURSIVE ClosestFrom(_, _, _, _)
ClosestFrom(i, target_rgb, closest_color, min_distance) ==
    IF i > Len(get_all_colors) THEN closest_color
    ELSE LET color_rgb == hex_to_rgb(lstrip(get_all_colors[i].hex, "#"))
         IN  IF color_rgb # <<>>
                /\ (closest_color = 0 \/ color_distance(target_rgb, color_rgb) < min_distance)
             THEN ClosestFrom(i + 1, target_rgb, i, color_distance(target_rgb, color_rgb))
             ELSE ClosestFrom(i + 1, target_rgb, closest_color, min_distance)

\* a search that never looks at the first catalog entry
find_closest_colorSkipsFirst(hex_color) ==
    LET target_rgb == hex_to_rgb(lstrip(upper(hex_color), "#"))
    IN  IF target_rgb = <<>> THEN 0 ELSE ClosestFrom(2, target_rgb, 0, 0)

\* GarmentColorManager.find_closest_color: the index of the entry returned, 0 for None
find_closest_color(hex_color) ==
    LET target_rgb == hex_to_rgb(lstrip(upper(hex_color), "#"))
    IN  IF target_rgb = <<>> THEN 0 ELSE ClosestFrom(1, target_rgb, 0, 0)

\* GarmentColorManager.find_color_by_hex over the whole catalog: the index of
\* the entry returned, 0 for None
FindColorByHex(hex_color) ==
    LET h == <<"#">> \o lstrip(upper(hex_color), "#")
        hits == {i \in 1..Len(get_all_colors) : upper(get_all_colors[i].hex) = upper(h)}
    IN  IF hits = {} THEN 0 ELSE CHOOSE i \in hits : \A j \in hits : i <= j

\* the options dict as validate_color_workflow reads it
AsDict(options) ==
    [key \in DOMAIN options |-> IF options[key] THEN "true" ELSE "false"]

NoCall ==
    [fn |-> "none", file_type |-> "unknown", has_cmyk_colors |-> FALSE,
     color_data |-> [has_cmyk |-> "<absent>"],
     workflow_options |-> [preserve_cmyk |-> "<absent>", convert_to_cmyk |-> "<absent>",
                           allow_raster_conversion |-> "<absent>"],
     preserve |-> FALSE,
     options |-> [preserve_cmyk |-> FALSE, convert_to_cmyk |-> FALSE, allow_raster_conversion |-> FALSE],
     issues |-> <<>>,
     mime_type |-> "", filename |-> <<>>, returned_type |-> "unknown",
     rgb |-> <<0, 0, 0>>, hex_color |-> <<>>, raised |-> "none", cmyk |-> <<>>, closest |-> 0]

-----------------------------------------------------------------------------
(* Logo files *)

Filenames == {"a.png", "b.svg"}

\* filename.lower().split('.')[-1]
FileExt(filename) ==
    CASE filename = "a.png" -> "png"
      [] filename = "b.svg" -> "svg"
      [] filename = "c.pdf" -> "pdf"
      [] filename = "d.ai"  -> "ai"
      [] filename = "e.eps" -> "eps"
      [] filename = "f.jpg" -> "jpg"
      [] filename = "g.txt" -> "txt"
      [] OTHER -> filename

\* OdooPDFGenerator._get_logo_file_path
_get_logo_file_path(logo) == "/tmp/artwork_logos/" \o logo.filename

\* svg_path.replace('.svg', '_converted.pdf')
ConvertedPath(svg_path) ==
    CASE svg_path = "/tmp/artwork_logos/b.svg" -> "/tmp/artwork_logos/b_converted.pdf"
      [] OTHER -> svg_path

LogoPaths == {"/tmp/artwork_logos/" \o f : f \in Filenames}

-----------------------------------------------------------------------------
(* OdooPDFGenerator: the drawing operations of one generation.             *)
(* w is the generation's working state: code is the content of the current *)
(* page, embedded the calls of _embed_single_logo, fs the file system,     *)
(* touched the paths read or written, created the paths written.           *)

x_pos == 50          \* legend left margin in points
y_pos == 20          \* legend baseline in points
LinePitch == 15      \* legend line pitch in points

\* what the environment does to the external step of one embedding: rsvg-convert
\* converts ("ok"), exits non-zero ("error") or is not installed ("absent");
\* drawImage draws ("ok") or raises on an unreadable image (otherwise)
Outcomes == {"ok", "error", "absent"}

\* one canvas call; lengths are in thousandths of a point
Op(o, el, arg, n) == [op |-> o, el |-> el, arg |-> arg, n |-> n, x |-> 0, y |-> 0, width |-> 0, height |-> 0]

\* a canvas call with coordinates
At(op, x, y, width, height) == [op EXCEPT !.x = x, !.y = y, !.width = width, !.height = height]

MmToPoints == 2834   \* 2.834 points per millimetre, in thousandths

\* OdooPDFGenerator._calculate_scale: the element dicts carry no 'scale' key
_calculate_scale(element, template) == 1

\* a position that converts the units and keeps the canvas's top-left origin
_calculate_positionUnflipped(element, template) ==
    [x |-> element.x * MmToPoints, y |-> element.y * MmToPoints]

\* OdooPDFGenerator._calculate_position, in thousandths of a point
_calculate_position(element, template) ==
    LET x == element.x * MmToPoints
        y == element.y * MmToPoints
        page_height == template.height * MmToPoints
    IN  [x |-> x, y |-> page_height - y - (element.height * MmToPoints)]

\* the record of one call of _embed_single_logo: the branch it took and
\* whether the content was embedded, skipped (no file) or failed with a warning
Embedded(w, page_number, i, logo, route, res) ==
    [w EXCEPT !.embedded = Append(@, [page |-> page_number, el |-> i, logo |-> logo.id,
                                      route |-> route, res |-> res])]

Outcome(out) == IF out = "ok" THEN "embedded" ELSE "failed"

\* OdooPDFGenerator._embed_pdf_content: logs, draws nothing
_embed_pdf_content(w, pdf_path) == w

\* OdooPDFGenerator._embed_svg_content
_embed_svg_content(w, svg_path, rsvg) ==
    LET pdf_path == ConvertedPath(svg_path)
    IN  CASE rsvg = "ok" ->
               _embed_pdf_content([w EXCEPT !.fs = @ \cup {pdf_path},
                                            !.created = @ \cup {pdf_path},
                                            !.touched = @ \cup {svg_path, pdf_path}], pdf_path)
          [] rsvg = "error" ->
               [w EXCEPT !.touched = @ \cup {svg_path, pdf_path}]
          [] OTHER -> w

\* a raster embed that leaves an element with lockRotation unrotated
_embed_raster_contentLocked(w, image_path, x, y, i, element, scale, image) ==
    LET width == element.width * 1000 * scale
        height == element.height * 1000 * scale
        rotation == IF "lockRotation" \in element.locks THEN 0 ELSE element.rotation
    IN  IF rotation # 0
        THEN [w EXCEPT !.code = @ \o <<Op("saveState", i, "", 0),
                                       At(Op("translate", i, "", 0), x + (width \div 2), y + (height \div 2), 0, 0),
                                       Op("rotate", i, "", rotation)>>
                                  \o (IF image = "ok"
                                      THEN <<At(Op("drawImage", i, image_path, 0),
                                                0 - (width \div 2), 0 - (height \div 2), width, height),
                                             Op("restoreState", i, "", 0)>>
                                      ELSE <<>>)]
        ELSE [w EXCEPT !.code = @ \o (IF image = "ok"
                                      THEN <<At(Op("drawImage", i, image_path, 0), x, y, width, height)>>
                                      ELSE <<>>)]

\* OdooPDFGenerator._embed_raster_content
_embed_raster_content(w, image_path, x, y, i, element, scale, image) ==
    LET width == element.width * 1000 * scale
        height == element.height * 1000 * scale
        rotation == element.rotation
    IN  IF rotation # 0
        THEN [w EXCEPT !.code = @ \o <<Op("saveState", i, "", 0),
                                       At(Op("translate", i, "", 0), x + (width \div 2), y + (height \div 2), 0, 0),
                                       Op("rotate", i, "", rotation)>>
                                  \o (IF image = "ok"
                                      THEN <<At(Op("drawImage", i, image_path, 0),
                                                0 - (width \div 2), 0 - (height \div 2), width, height),
                                             Op("restoreState", i, "", 0)>>
                                      ELSE <<>>)]
        ELSE [w EXCEPT !.code = @ \o (IF image = "ok"
                                      THEN <<At(Op("drawImage", i, image_path, 0), x, y, width, height)>>
                                      ELSE <<>>)]

\* OdooPDFGenerator._embed_single_logo
_embed_single_logo(w, page_number, i, element, logo, template, out) ==
    LET scale == _calculate_scale(element, template)
        pos == _calculate_position(element, template)
        logo_path == _get_logo_file_path(logo)
        w1 == [w EXCEPT !.touched = @ \cup {logo_path}]
        file_ext == FileExt(logo.filename)
    IN  IF logo_path \notin w.fs
        THEN Embedded(w1, page_number, i, logo, "missing", "skipped")
        ELSE IF file_ext = "pdf" /\ logo.isCMYKPreserved
        THEN _embed_pdf_content(Embedded(w1, page_number, i, logo, "pdf", "embedded"), logo_path)
        ELSE IF file_ext = "svg"
        THEN _embed_svg_content(Embedded(w1, page_number, i, logo, "svg", Outcome(out)), logo_path, out)
        ELSE _embed_raster_content(Embedded(w1, page_number, i, logo, "raster", Outcome(out)),
                                   logo_path, pos.x, pos.y, i, element, scale, out)

NoLogo == [id |-> IntId(0), filename |-> "", isCMYKPreserved |-> FALSE]

\* next((l for l in logos if l.get('id') == element.get('logoId')), None)
FindLogo(logo_list, logoId) ==
    LET hits == {k \in 1..Len(logo_list) : logo_list[k].id = logoId}
    IN  IF hits = {} THEN NoLogo ELSE logo_list[CHOOSE k \in hits : \A j \in hits : k <= j]

\* a page loop without the try/except around _embed_single_logo: the first
\* failing element ends the loop
RECURSIVE EmbedFromAbort(_, _, _, _, _)
EmbedFromAbort(w, project_data, page_number, outs, i) ==
    IF i > Len(project_data.canvas_elements) THEN w
    ELSE LET element == project_data.canvas_elements[i]
             logo == FindLogo(project_data.logos, element.logoId)
             w1 == _embed_single_logo(w, page_number, i, element, logo, project_data.template_size, outs[i])
         IN  IF logo = NoLogo
             THEN EmbedFromAbort(w, project_data, page_number, outs, i + 1)
             ELSE IF w1.embedded[Len(w1.embedded)].res = "failed" THEN w1
             ELSE EmbedFromAbort(w1, project_data, page_number, outs, i + 1)

\* OdooPDFGenerator._embed_logos_page, from element i on
RECURSIVE EmbedFrom(_, _, _, _, _)
EmbedFrom(w, project_data, page_number, outs, i) ==
    IF i > Len(project_data.canvas_elements) THEN w
    ELSE LET element == project_data.canvas_elements[i]
             logo == FindLogo(project_data.logos, element.logoId)
         IN  IF logo = NoLogo
             THEN EmbedFrom(w, project_data, page_number, outs, i + 1)
             ELSE EmbedFrom(_embed_single_logo(w, page_number, i, element, logo,
                                               project_data.template_size, outs[i]),
                            project_data, page_number, outs, i + 1)

_embed_logos_page(w, project_data, page_number, outs) ==
    EmbedFrom(w, project_data, page_number, outs, 1)

\* element.get('garmentColor', default_color)
ElementGarmentColor(element, default_color) == Get(element.garmentColor, default_color)

\* OdooPDFGenerator._draw_garment_backgrounds, from element i on
RECURSIVE BackgroundsFrom(_, _, _)
BackgroundsFrom(w, project_data, i) ==
    IF i > Len(project_data.canvas_elements) THEN w
    ELSE LET garment_color == ElementGarmentColor(project_data.canvas_elements[i], project_data.garment_color)
         IN  IF Truthy(garment_color) /\ garment_color # "transparent" /\ HexColorOk(garment_color)
             THEN BackgroundsFrom([w EXCEPT !.code = @ \o <<Op("setFillColor", i, garment_color, 0),
                                                             Op("rect", i, garment_color, 0)>>],
                                  project_data, i + 1)
             ELSE BackgroundsFrom(w, project_data, i + 1)

_draw_garment_backgrounds(w, project_data) == BackgroundsFrom(w, project_data, 1)

\* OdooPDFGenerator._get_color_info
_get_color_info(hex_color) == [name |-> Upper(hex_color), cmyk |-> ""]

\* a first loop that collects the element overrides only
LabelColorsOverridesOnly(project_data) ==
    {c \in {project_data.canvas_elements[i].garmentColor : i \in 1..Len(project_data.canvas_elements)} :
        Truthy(c)}

\* the set built by the first loop of _add_color_labels
LabelColors(project_data) ==
    {c \in {ElementGarmentColor(project_data.canvas_elements[i], project_data.garment_color) :
                i \in 1..Len(project_data.canvas_elements)} : Truthy(c)}

\* the second loop of _add_color_labels over enumerate(colors), from index i on
RECURSIVE LabelsFrom(_, _, _)
LabelsFrom(w, order, i) ==
    IF i >= Len(order) THEN w
    ELSE LET color == order[i + 1]
             color_info == _get_color_info(color)
             label == color_info.name \o " " \o color_info.cmyk
         IN  IF Truthy(color) /\ color # "transparent"
             THEN LabelsFrom([w EXCEPT !.code = Append(@, Op("drawString", i, label, y_pos - (i * LinePitch))),
                                       !.legend = Append(@, [i |-> i, color |-> color, label |-> label,
                                                             x |-> x_pos, y |-> y_pos - (i * LinePitch)])],
                             order, i + 1)
             ELSE LabelsFrom(w, order, i + 1)

\* OdooPDFGenerator._add_color_labels; order is the iteration order of the set
_add_color_labels(w, project_data, order) ==
    LabelsFrom([w EXCEPT !.code = @ \o <<Op("setFont", 0, "Helvetica", 10), Op("setFillColor", 0, "black", 0)>>],
               order, 0)

\* a showPage that drops a page without content
showPageSkipEmpty(w) ==
    IF w.code = <<>> THEN w ELSE [w EXCEPT !.pages = Append(@, w.code), !.code = <<>>]

\* Canvas.showPage: the current page is emitted, empty or not
showPage(w) == [w EXCEPT !.pages = Append(@, w.code), !.code = <<>>]

\* Canvas.save: emits the current page when it has content, then writes the file
save(w, pdf_path) ==
    LET w1 == IF Len(w.code) > 0 THEN showPage(w) ELSE w
    IN  [w1 EXCEPT !.fs = @ \cup {pdf_path}, !.created = @ \cup {pdf_path}, !.touched = @ \cup {pdf_path}]

-----------------------------------------------------------------------------
(* Project snapshots (project_data) *)

TemplateA4 == [name |-> "template-A4", width |-> 210, height |-> 297]

NoSnapshot ==
    [project_id |-> 0, template_size |-> TemplateA4, canvas_elements |-> <<>>,
     logos |-> <<>>, garment_color |-> ""]

\* the logos of a snapshot handed to the generator by a direct caller
DirectLogos ==
    << [id |-> IntId(1), filename |-> "a.png", isCMYKPreserved |-> FALSE],
       [id |-> IntId(2), filename |-> "b.svg", isCMYKPreserved |-> FALSE] >>

\* the lock keys an element dict can carry; locks is the set of those that are true
LockFlags == {"isLocked", "lockPosition", "lockSize", "lockRotation"}

\* geometry in millimetres and degrees, the imposition grid, the lock flags
ElementDefaults ==
    [x |-> 0, y |-> 0, width |-> 100, height |-> 100,
     isImposition |-> FALSE, impositionRows |-> 1, impositionCols |-> 1,
     impositionSpacingX |-> 10, impositionSpacingY |-> 10, locks |-> {}]

\* the dicts of S completed with the default geometry
Completed(S) == {e @@ ElementDefaults : e \in S}

DirectColors == {"#FF0000", "#ff0000", "transparent", "notacolor"}
Rotations == {0, 90}

\* the element dicts of a direct snapshot: an element varies its logo and
\* rotation, or its garment colour; logo 3 is not among the snapshot's logos
DirectElements ==
    Completed([id : {0}, logoId : {IntId(1), IntId(2), IntId(3)}, garmentColor : {Absent}, rotation : {0}]
              \cup [id : {0}, logoId : {IntId(1)}, garmentColor : {Absent}, rotation : Rotations]
              \cup [id : {0}, logoId : {IntId(1)}, garmentColor : DirectColors, rotation : {0}])

SeqsUpTo(S, n) == UNION {[1..k -> S] : k \in 0..n}

Snapshots ==
    [project_id : {1}, template_size : {TemplateA4}, canvas_elements : SeqsUpTo(DirectElements, MaxElems),
     logos : {DirectLogos}, garment_color : {"#000000"}]

\* the snapshots of the concurrent generations: a raster and an SVG logo
ConcElements == Completed([id : {0}, logoId : {IntId(1), IntId(2)}, garmentColor : {Absent}, rotation : {0}])

ConcSnapshots ==
    [project_id : {1, 2}, template_size : {TemplateA4}, canvas_elements : SeqsUpTo(ConcElements, MaxConcElems),
     logos : {DirectLogos}, garment_color : {"#000000"}]

\* the logos of the placement snapshots: every file type the uploader
\* accepts, the vector ones with and without the CMYK flag
PlaceLogos ==
    << [id |-> IntId(1), filename |-> "a.png", isCMYKPreserved |-> FALSE],
       [id |-> IntId(2), filename |-> "f.jpg", isCMYKPreserved |-> FALSE],
       [id |-> IntId(3), filename |-> "b.svg", isCMYKPreserved |-> TRUE],
       [id |-> IntId(4), filename |-> "c.pdf", isCMYKPreserved |-> TRUE],
       [id |-> IntId(5), filename |-> "c.pdf", isCMYKPreserved |-> FALSE],
       [id |-> IntId(6), filename |-> "d.ai", isCMYKPreserved |-> TRUE],
       [id |-> IntId(7), filename |-> "d.ai", isCMYKPreserved |-> FALSE],
       [id |-> IntId(8), filename |-> "e.eps", isCMYKPreserved |-> TRUE],
       [id |-> IntId(9), filename |-> "e.eps", isCMYKPreserved |-> FALSE] >>

PlacePaths == {_get_logo_file_path(PlaceLogos[k]) : k \in 1..Len(PlaceLogos)}

TemplateA3 == [name |-> "template-A3", width |-> 297, height |-> 420]

PlaceBase == [id |-> 0, logoId |-> IntId(1), garmentColor |-> Absent, rotation |-> 0] @@ ElementDefaults

\* the element dicts of a placement snapshot: an element varies its logo, or
\* its position, height and rotation, or its imposition grid
PlaceElements ==
    {[PlaceBase EXCEPT !.logoId = IntId(l)] : l \in 1..Len(PlaceLogos)}
    \cup {[PlaceBase EXCEPT !.x = x, !.y = y, !.height = h, !.rotation = r] :
              x \in {0, 10}, y \in {0, 20}, h \in {50, 100}, r \in Rotations}
    \cup {[PlaceBase EXCEPT !.x = 10, !.y = 20, !.isImposition = TRUE, !.impositionRows = R,
                            !.impositionCols = C, !.impositionSpacingX = 5, !.impositionSpacingY = 7] :
              R \in {1, 2}, C \in {1, 3}}

PlaceSnapshots ==
    [project_id : {1}, template_size : {TemplateA4, TemplateA3},
     canvas_elements : SeqsUpTo(PlaceElements, MaxPlaceElems),
     logos : {PlaceLogos}, garment_color : {"#000000"}]

\* the lock flags a snapshot's element can carry: none, the element lock,
\* or all four
LockSets == {{}, {"isLocked"}, LockFlags}

\* a rotated raster element, the one that takes every canvas call of the embed
LockElements == {[PlaceBase EXCEPT !.rotation = 90, !.locks = L] : L \in LockSets}

LockSnapshots ==
    [project_id : {1}, template_size : {TemplateA4},
     canvas_elements : SeqsUpTo(LockElements, MaxLockElems),
     logos : {<<PlaceLogos[1]>>}, garment_color : {"#000000"}]

\* a snapshot with every lock flag cleared
Unlocked(project_data) ==
    [project_data EXCEPT !.canvas_elements =
        [k \in 1..Len(project_data.canvas_elements) |-> [project_data.canvas_elements[k] EXCEPT !.locks = {}]]]

-----------------------------------------------------------------------------
(* The requests *)

\* what the controller read from the tables when it built a snapshot
NoSource == [found |-> FALSE, import |-> "none", rows |-> <<>>, logo_ids |-> {}, garment_color |-> ""]

IdleGen ==
    [pc |-> "idle", origin |-> "none", req |-> 0, snap |-> NoSnapshot, src |-> NoSource,
     temp_dir |-> "", code |-> <<>>, pages |-> <<>>, embedded |-> <<>>, legend |-> <<>>,
     touched |-> {}, created |-> {}, io |-> "none", result |-> "none", doc |-> <<>>,
     response |-> "none"]

\* tempfile.mkdtemp(prefix='artwork_pdf_')
TempDir(d) == "/tmp/artwork_pdf_" \o ToString(d)

\* os.path.join(self.temp_dir, f"artwork_{project_data['project_id']}.pdf")
PdfPath(temp_dir, project_id) == temp_dir \o "/artwork_" \o ToString(project_id) \o ".pdf"

\* what shutil.rmtree(temp_dir) removes
TreeOf(temp_dir) == {temp_dir} \cup {PdfPath(temp_dir, p) : p \in 1..(MaxProjects + 1)}

Work(g) == [code |-> gen[g].code, pages |-> gen[g].pages, embedded |-> gen[g].embedded,
            legend |-> gen[g].legend, touched |-> gen[g].touched, created |-> gen[g].created, fs |-> fs]

Store(g, pc, w) ==
    /\ gen' = [gen EXCEPT ![g] = [@ EXCEPT !.pc = pc, !.code = w.code, !.pages = w.pages,
                                            !.embedded = w.embedded, !.legend = w.legend,
                                            !.touched = w.touched, !.created = w.created]]
    /\ fs' = w.fs

\* OdooPDFGenerator.__init__ followed by the entry into generate_pdf
Construct(g, origin, req, project_data, src) ==
    \E d \in 1..MaxDirs :
        /\ TempDir(d) \notin fs
        /\ \A e \in 1..(d - 1) : TempDir(e) \in fs
        /\ fs' = fs \cup {TempDir(d)}
        /\ gen' = [gen EXCEPT ![g] = [IdleGen EXCEPT !.pc = "ready", !.origin = origin, !.req = req,
                                                     !.snap = project_data, !.src = src,
                                                     !.temp_dir = TempDir(d),
                                                     !.touched = {TempDir(d)},
                                                     !.created = {TempDir(d)}]]

\* a caller other than the controller constructs a generator for a snapshot;
\* mkdtemp's names are opaque, the model takes the least unused one
StartDirect(g, project_data) ==
    /\ gen[g].pc = "idle"
    /\ Construct(g, "direct", 0, project_data, NoSource)
    /\ UNCHANGED <<projects, logos, elements, nextId, flow>>

\* generate_pdf, page 1: the logos, then showPage
Page1(g) ==
    /\ gen[g].pc = "ready"
    /\ \E outs \in [1..Len(gen[g].snap.canvas_elements) -> Outcomes] :
          Store(g, "page1", showPage(_embed_logos_page(Work(g), gen[g].snap, 1, outs)))
    /\ UNCHANGED <<projects, logos, elements, nextId, flow>>

\* a page 2 that embeds the logos first and paints the backgrounds over them
Page2LogosFirst(g) ==
    /\ gen[g].pc = "page1"
    /\ \E outs \in [1..Len(gen[g].snap.canvas_elements) -> Outcomes] :
       \E order \in Orders(LabelColors(gen[g].snap)) :
          Store(g, "page2",
                _add_color_labels(
                    _draw_garment_backgrounds(_embed_logos_page(Work(g), gen[g].snap, 2, outs), gen[g].snap),
                    gen[g].snap, order))
    /\ UNCHANGED <<projects, logos, elements, nextId, flow>>

\* generate_pdf, page 2: backgrounds, logos, legend
Page2(g) ==
    /\ gen[g].pc = "page1"
    /\ \E outs \in [1..Len(gen[g].snap.canvas_elements) -> Outcomes] :
       \E order \in Orders(LabelColors(gen[g].snap)) :
          Store(g, "page2",
                _add_color_labels(
                    _embed_logos_page(_draw_garment_backgrounds(Work(g), gen[g].snap), gen[g].snap, 2, outs),
                    gen[g].snap, order))
    /\ UNCHANGED <<projects, logos, elements, nextId, flow>>

\* generate_pdf: c.save() and reading the file back, or the exception of a failed write
Save(g) ==
    /\ gen[g].pc = "page2"
    /\ \E io \in {"ok", "IOError"} :
          IF io = "ok"
          THEN LET w == save(Work(g), PdfPath(gen[g].temp_dir, gen[g].snap.project_id))
               IN  /\ gen' = [gen EXCEPT ![g] = [@ EXCEPT !.pc = "saved", !.code = w.code, !.pages = w.pages,
                                                         !.touched = w.touched, !.created = w.created,
                                                         !.io = io, !.result = "bytes", !.doc = w.pages]]
                   /\ fs' = w.fs
          ELSE /\ gen' = [gen EXCEPT ![g] = [@ EXCEPT !.pc = "saved", !.io = io, !.result = "raise"]]
               /\ fs' = fs
    /\ UNCHANGED <<projects, logos, elements, nextId, flow>>

\* OdooPDFGenerator._cleanup_temp_files
_cleanup_temp_files(files, temp_dir) == files \ TreeOf(temp_dir)

\* a controller without the except branch: what the generator raises reaches the client
ResponsePropagates(result) == IF result = "bytes" THEN "pdf" ELSE "error"

\* the controller's generate_pdf after the generator: the response for the
\* generator's bytes, and the except branch for everything raised
Response(result) == IF result = "bytes" THEN "pdf" ELSE "fallback_pdf"

\* the finally block of generate_pdf, then what the caller does with the outcome
Finish(g) ==
    /\ gen[g].pc = "saved"
    /\ fs' = _cleanup_temp_files(fs, gen[g].temp_dir)
    /\ gen' = [gen EXCEPT ![g] = [@ EXCEPT !.pc = "done",
                                          !.response = IF gen[g].origin = "endpoint"
                                                       THEN Response(gen[g].result) ELSE "none"]]
    /\ UNCHANGED <<projects, logos, elements, nextId, flow>>

-----------------------------------------------------------------------------
(* The tables and the controller *)

RECURSIVE Ascending(_)
Ascending(S) ==
    IF S = {} THEN <<>>
    ELSE LET m == CHOOSE x \in S : \A y \in S : x <= y IN <<m>> \o Ascending(S \ {m})

RECURSIVE Descending(_)
Descending(S) ==
    IF S = {} THEN <<>>
    ELSE LET m == CHOOSE x \in S : \A y \in S : x >= y IN <<m>> \o Descending(S \ {m})

\* project.canvas_element_ids, in the model's _order 'sequence, id'
canvas_element_ids(p) == Ascending({e \in DOMAIN elements : elements[e].project_id = p})

\* project.logo_ids, in the model's _order 'create_date desc'
logo_ids(p) == Descending({l \in DOMAIN logos : logos[l].project_id = p})

ProjectColors == {"#000000", "#FF0000"}

\* ArtworkUploaderController.create_project
create_project(garmentColor) ==
    /\ nextId.project <= MaxProjects
    /\ projects' = (nextId.project :> [uuid |-> nextId.project,
                                       template_size |-> "template-A4",
                                       garment_color |-> Get(garmentColor, "#000000"),
                                       state |-> "draft",
                                       sale_order_id |-> 0]) @@ projects
    /\ nextId' = [nextId EXCEPT !.project = @ + 1]
    /\ UNCHANGED <<logos, elements, gen, fs, flow>>

\* an update that also puts the project back to draft
update_projectResets(project_uuid, garmentColor) ==
    /\ IF project_uuid \in DOMAIN projects /\ garmentColor # Absent
       THEN projects' = [projects EXCEPT ![project_uuid].garment_color = garmentColor,
                                         ![project_uuid].state = "draft"]
       ELSE UNCHANGED projects
    /\ UNCHANGED <<logos, elements, nextId, gen, fs, flow>>

\* ArtworkUploaderController.update_project
update_project(project_uuid, garmentColor) ==
    /\ IF project_uuid \in DOMAIN projects /\ garmentColor # Absent
       THEN projects' = [projects EXCEPT ![project_uuid].garment_color = garmentColor]
       ELSE UNCHANGED projects
    /\ UNCHANGED <<logos, elements, nextId, gen, fs, flow>>

\* ArtworkProject.action_confirm
action_confirm(p) ==
    /\ p \in DOMAIN projects
    /\ projects' = [projects EXCEPT ![p].state = "confirmed"]
    /\ UNCHANGED <<logos, elements, nextId, gen, fs, flow>>

\* ArtworkProject.action_cancel
action_cancel(p) ==
    /\ p \in DOMAIN projects
    /\ projects' = [projects EXCEPT ![p].state = "cancelled"]
    /\ UNCHANGED <<logos, elements, nextId, gen, fs, flow>>

\* ArtworkProject.action_done
action_done(p) ==
    /\ p \in DOMAIN projects
    /\ projects' = [projects EXCEPT ![p].state = "done"]
    /\ UNCHANGED <<logos, elements, nextId, gen, fs, flow>>

\* ArtworkProject.action_reset_to_draft
action_reset_to_draft(p) ==
    /\ p \in DOMAIN projects
    /\ projects' = [projects EXCEPT ![p].state = "draft"]
    /\ UNCHANGED <<logos, elements, nextId, gen, fs, flow>>

\* ArtworkUploaderController.add_to_cart: with a product mapped for the
\* template the project is linked to the visitor's sale order (order 1),
\* without one the request returns an error
add_to_cart(project_uuid, mapped) ==
    /\ IF project_uuid \in DOMAIN projects /\ mapped
       THEN projects' = [projects EXCEPT ![project_uuid].sale_order_id = 1]
       ELSE UNCHANGED projects
    /\ UNCHANGED <<logos, elements, nextId, gen, fs, flow>>

\* ArtworkLogo._compute_file_type
_compute_file_type(filename) ==
    CASE FileExt(filename) = "png" -> "png"
      [] FileExt(filename) \in {"jpg", "jpeg"} -> "jpeg"
      [] FileExt(filename) = "svg" -> "svg"
      [] FileExt(filename) = "pdf" -> "pdf"
      [] FileExt(filename) = "ai" -> "ai"
      [] FileExt(filename) = "eps" -> "eps"
      [] OTHER -> ""

\* the analysis fields of a new artwork.logo row
LogoDefaults ==
    [is_vector |-> FALSE, is_raster |-> FALSE, has_cmyk |-> FALSE, is_cmyk_preserved |-> FALSE]

\* what the uploaded file and the host do to the processing of a logo: cmyk,
\* the file's text names a CMYK colour; fail, where processing raises: "none",
\* "read" (the SVG cannot be read as UTF-8 text), "store" (the processed SVG
\* cannot be stored), "tools" (gs or inkscape fails or is missing)
Processing(cmyk, fail) == [cmyk |-> cmyk, fail |-> fail]

Failures == {"none", "read", "store", "tools"}

\* ArtworkLogo._process_svg
_process_svg(rec, env) ==
    LET started == [rec EXCEPT !.is_vector = TRUE, !.is_raster = FALSE]
        analysed == [started EXCEPT !.has_cmyk = env.cmyk, !.is_cmyk_preserved = env.cmyk]
    IN  CASE env.fail = "read"  -> [started EXCEPT !.is_vector = TRUE, !.has_cmyk = FALSE]
          [] env.fail = "store" -> [analysed EXCEPT !.is_vector = TRUE, !.has_cmyk = FALSE]
          [] OTHER -> analysed

\* ArtworkLogo._convert_to_svg, the definition the class body binds last
_convert_to_svg(rec, env) ==
    IF env.fail = "tools" THEN rec ELSE [rec EXCEPT !.is_vector = TRUE]

\* ArtworkLogo._process_pdf, the definition the class body binds last
_process_pdf(rec) == [rec EXCEPT !.is_vector = TRUE]

\* ArtworkLogo._process_raster, the definition the class body binds last
_process_raster(rec) == [rec EXCEPT !.is_raster = TRUE]

\* ArtworkLogo._process_file; _analyze_colors writes color_count and color_data only
_process_file(rec, file_type, env) ==
    CASE file_type \in {"ai", "eps"} -> _convert_to_svg(rec, env)
      [] file_type = "pdf" -> _process_pdf(rec)
      [] file_type = "svg" -> _process_svg(rec, env)
      [] file_type \in {"png", "jpeg"} -> _process_raster(rec)
      [] OTHER -> rec

\* ArtworkUploaderController.upload_logo with ArtworkLogo.create
upload_logo(project_uuid, filename, env) ==
    /\ IF project_uuid \in DOMAIN projects
       THEN /\ logos' = (nextId.logo :> _process_file([project_id |-> project_uuid, filename |-> filename]
                                                          @@ LogoDefaults,
                                                      _compute_file_type(filename), env))
                        @@ logos
            /\ nextId' = [nextId EXCEPT !.logo = @ + 1]
       ELSE UNCHANGED <<logos, nextId>>
    /\ UNCHANGED <<projects, elements, gen, fs, flow>>

SaveColors == {"default", "#FF0000"}

\* the element dicts a canvas save can submit
SaveElements == [logoId : 1..MaxLogos, garmentColor : SaveColors, rotation : {0}]

\* ArtworkCanvasElement.create_from_canvas_data: the row's values
create_from_canvas_data(project_id, canvas_data) ==
    [project_id |-> project_id,
     logo_id |-> canvas_data.logoId,
     garment_color |-> IF canvas_data.garmentColor # "default" THEN Get(canvas_data.garmentColor, "") ELSE "",
     rotation |-> canvas_data.rotation]

\* a save that creates the submitted elements without unlinking the old ones
save_canvas_elementsAppend(project_uuid, elements_data) ==
    /\ IF /\ project_uuid \in DOMAIN projects
          /\ \A k \in 1..Len(elements_data) : elements_data[k].logoId \in DOMAIN logos
       THEN LET new  == nextId.element .. (nextId.element + Len(elements_data) - 1)
            IN  /\ elements' = [e \in DOMAIN elements \cup new |->
                                   IF e \in new
                                   THEN create_from_canvas_data(project_uuid, elements_data[e - nextId.element + 1])
                                   ELSE elements[e]]
                /\ nextId' = [nextId EXCEPT !.element = @ + Len(elements_data)]
       ELSE UNCHANGED <<elements, nextId>>
    /\ UNCHANGED <<projects, logos, gen, fs, flow>>

\* ArtworkUploaderController.save_canvas_elements; a logoId without a logo row
\* violates the foreign key and the request's transaction is rolled back
save_canvas_elements(project_uuid, elements_data) ==
    /\ IF /\ project_uuid \in DOMAIN projects
          /\ \A k \in 1..Len(elements_data) : elements_data[k].logoId \in DOMAIN logos
       THEN LET kept == {e \in DOMAIN elements : elements[e].project_id # project_uuid}
                new  == nextId.element .. (nextId.element + Len(elements_data) - 1)
            IN  /\ elements' = [e \in kept \cup new |->
                                   IF e \in new
                                   THEN create_from_canvas_data(project_uuid, elements_data[e - nextId.element + 1])
                                   ELSE elements[e]]
                /\ nextId' = [nextId EXCEPT !.element = @ + Len(elements_data)]
       ELSE UNCHANGED <<elements, nextId>>
    /\ UNCHANGED <<projects, logos, gen, fs, flow>>

\* ArtworkCanvasElement.get_canvas_data; the rows of the model keep the field
\* defaults for geometry, imposition and is_locked
get_canvas_data(e) ==
    [id |-> e,
     logoId |-> IntId(elements[e].logo_id),
     garmentColor |-> IF Truthy(elements[e].garment_color) THEN elements[e].garment_color ELSE "default",
     rotation |-> elements[e].rotation] @@ ElementDefaults

\* _compute_template_dimensions
TemplateOf(template_size) ==
    IF template_size = "template-A4" THEN TemplateA4
    ELSE [name |-> template_size, width |-> 297, height |-> 420]

\* the project_data the controller's generate_pdf prepares
ProjectData(p) ==
    [project_id |-> projects[p].uuid,
     template_size |-> TemplateOf(projects[p].template_size),
     canvas_elements |-> [k \in 1..Len(canvas_element_ids(p)) |-> get_canvas_data(canvas_element_ids(p)[k])],
     logos |-> [k \in 1..Len(logo_ids(p)) |->
                   [id |-> StrId(logo_ids(p)[k]),
                    filename |-> logos[logo_ids(p)[k]].filename,
                    isCMYKPreserved |-> logos[logo_ids(p)[k]].is_cmyk_preserved]],
     garment_color |-> projects[p].garment_color]

SourceOf(p, import) ==
    [found |-> TRUE, import |-> import,
     rows |-> [k \in 1..Len(canvas_element_ids(p)) |-> elements[canvas_element_ids(p)[k]]],
     logo_ids |-> {l \in DOMAIN logos : logos[l].project_id = p},
     garment_color |-> projects[p].garment_color]

ImportOutcomes == {"ok", "ImportError", "error"}

\* ArtworkUploaderController.generate_pdf up to the construction of the generator
ControllerGeneratePdf(g, project_uuid, import) ==
    /\ gen[g].pc = "idle"
    /\ IF project_uuid \notin DOMAIN projects
       THEN /\ gen' = [gen EXCEPT ![g] = [IdleGen EXCEPT !.pc = "done", !.origin = "endpoint",
                                                        !.req = project_uuid, !.response = "not_found"]]
            /\ fs' = fs
       ELSE IF import # "ok"
       THEN /\ gen' = [gen EXCEPT ![g] = [IdleGen EXCEPT !.pc = "done", !.origin = "endpoint",
                                                        !.req = project_uuid,
                                                        !.src = SourceOf(project_uuid, import),
                                                        !.response = Response("raise")]]
            /\ fs' = fs
       ELSE Construct(g, "endpoint", project_uuid, ProjectData(project_uuid), SourceOf(project_uuid, import))
    /\ UNCHANGED <<projects, logos, elements, nextId, flow>>

-----------------------------------------------------------------------------
(* The generator alone, driven by direct callers on one worker *)

InitGen ==
    /\ projects = <<>>
    /\ logos = <<>>
    /\ elements = <<>>
    /\ nextId = [project |-> 1, logo |-> 1, element |-> 1]
    /\ gen = [g \in Gens |-> IdleGen]
    /\ flow = NoCall
    /\ fs \in {{}, LogoPaths}    \* the logo files are all there or all missing

NextGen ==
    \/ \E project_data \in Snapshots : StartDirect(1, project_data)
    \/ Page1(1)
    \/ Page2(1)
    \/ Save(1)
    \/ Finish(1)

SpecGen == InitGen /\ [][NextGen]_vars

-----------------------------------------------------------------------------
(* The application: requests that edit the tables, then one generation     *)
(* request.  The generation works on the snapshot the controller built, so *)
(* the edits are explored up to the generation request and not after it.   *)
(* No request writes under /tmp/artwork_logos: the host has put the logo   *)
(* files there or it has not.                                              *)

Init ==
    /\ projects = <<>>
    /\ logos = <<>>
    /\ elements = <<>>
    /\ nextId = [project |-> 1, logo |-> 1, element |-> 1]
    /\ gen = [g \in Gens |-> IdleGen]
    /\ flow = NoCall
    /\ fs \in {{}, LogoPaths}

Editing == gen[1].pc = "idle"

Next ==
    \/ Editing /\ \E garmentColor \in {Absent, "#FF0000"} : create_project(garmentColor)
    \/ Editing /\ \E p \in 1..MaxProjects, garmentColor \in ProjectColors : update_project(p, garmentColor)
    \/ Editing /\ nextId.logo <= MaxLogos
               /\ \E p \in 1..MaxProjects, filename \in Filenames : upload_logo(p, filename, Processing(FALSE, "none"))
    \/ Editing /\ \E p \in 1..MaxProjects, data \in SeqsUpTo(SaveElements, MaxElementId) :
                      /\ nextId.element + Len(data) - 1 <= MaxElementId
                      /\ save_canvas_elements(p, data)
    \/ \E p \in 1..MaxProjects, import \in ImportOutcomes : ControllerGeneratePdf(1, p, import)
    \/ Page1(1)
    \/ Page2(1)
    \/ Save(1)
    \/ Finish(1)

Spec == Init /\ [][Next]_vars

-----------------------------------------------------------------------------
(* Two generations that can overlap in time *)

NextConc ==
    \/ \E g \in Gens, project_data \in ConcSnapshots : StartDirect(g, project_data)
    \/ \E g \in Gens : Page1(g)
    \/ \E g \in Gens : Page2(g)
    \/ \E g \in Gens : Save(g)
    \/ \E g \in Gens : Finish(g)

SpecConc == InitGen /\ [][NextConc]_vars

-----------------------------------------------------------------------------
(* The project lifecycle: every request of the controller and the four     *)
(* state actions of artwork.project, on an empty logo directory            *)

InitLife ==
    /\ projects = <<>>
    /\ logos = <<>>
    /\ elements = <<>>
    /\ nextId = [project |-> 1, logo |-> 1, element |-> 1]
    /\ gen = [g \in Gens |-> IdleGen]
    /\ flow = NoCall
    /\ fs = {}

NextLife ==
    \/ Editing /\ nextId.project <= MaxLifeProjects /\ create_project(Absent)
    \/ Editing /\ \E p \in 1..MaxLifeProjects : update_project(p, "#FF0000")
    \/ Editing /\ nextId.logo <= MaxLogos
               /\ \E p \in 1..MaxLifeProjects : upload_logo(p, "a.png", Processing(FALSE, "none"))
    \/ Editing /\ \E p \in 1..MaxLifeProjects, data \in SeqsUpTo(SaveElements, MaxElementId) :
                      /\ nextId.element + Len(data) - 1 <= MaxElementId
                      /\ save_canvas_elements(p, data)
    \/ Editing /\ \E p \in 1..MaxLifeProjects, mapped \in BOOLEAN : add_to_cart(p, mapped)
    \/ Editing /\ \E p \in 1..MaxLifeProjects : action_confirm(p)
    \/ Editing /\ \E p \in 1..MaxLifeProjects : action_cancel(p)
    \/ Editing /\ \E p \in 1..MaxLifeProjects : action_done(p)
    \/ Editing /\ \E p \in 1..MaxLifeProjects : action_reset_to_draft(p)
    \/ \E p \in 1..MaxLifeProjects : ControllerGeneratePdf(1, p, "ok")
    \/ Page1(1)
    \/ Page2(1)
    \/ Save(1)
    \/ Finish(1)

SpecLife == InitLife /\ [][NextLife]_vars

-----------------------------------------------------------------------------
(* Two generations, one after the other, on snapshots that differ at most  *)
(* in the lock flags of their elements; the logo files are in place        *)

InitLock ==
    /\ projects = <<>>
    /\ logos = <<>>
    /\ elements = <<>>
    /\ nextId = [project |-> 1, logo |-> 1, element |-> 1]
    /\ gen = [g \in Gens |-> IdleGen]
    /\ flow = NoCall
    /\ fs = PlacePaths

NextLock ==
    \/ \E project_data \in LockSnapshots : StartDirect(1, project_data)
    \/ \E project_data \in LockSnapshots :
          /\ gen[1].pc = "done"
          /\ Unlocked(project_data) = Unlocked(gen[1].snap)
          /\ StartDirect(2, project_data)
    \/ \E g \in Gens : Page1(g)
    \/ \E g \in Gens : Page2(g)
    \/ \E g \in Gens : Save(g)
    \/ \E g \in Gens : Finish(g)

SpecLock == InitLock /\ [][NextLock]_vars

-----------------------------------------------------------------------------
(* The colour workflow functions, called with every file type *)

CallShouldPreserveCmyk(file_type, has_cmyk_colors) ==
    /\ flow' = [NoCall EXCEPT !.fn = "should_preserve_cmyk", !.file_type = file_type,
                              !.has_cmyk_colors = has_cmyk_colors,
                              !.preserve = should_preserve_cmyk(file_type, has_cmyk_colors)]
    /\ UNCHANGED <<projects, logos, elements, nextId, gen, fs>>

CallGetWorkflowOptions(file_type, has_cmyk_colors) ==
    /\ flow' = [NoCall EXCEPT !.fn = "get_workflow_options", !.file_type = file_type,
                              !.has_cmyk_colors = has_cmyk_colors,
                              !.options = get_workflow_options(file_type, has_cmyk_colors)]
    /\ UNCHANGED <<projects, logos, elements, nextId, gen, fs>>

CallValidateColorWorkflow(file_type, color_data, workflow_options) ==
    /\ flow' = [NoCall EXCEPT !.fn = "validate_color_workflow", !.file_type = file_type,
                              !.color_data = color_data, !.workflow_options = workflow_options,
                              !.issues = validate_color_workflow(file_type, color_data, workflow_options)]
    /\ UNCHANGED <<projects, logos, elements, nextId, gen, fs>>

NextFlow ==
    \/ \E file_type \in FileTypes, has_cmyk_colors \in BOOLEAN :
          CallShouldPreserveCmyk(file_type, has_cmyk_colors)
    \/ \E file_type \in FileTypes, has_cmyk_colors \in BOOLEAN :
          CallGetWorkflowOptions(file_type, has_cmyk_colors)
    \/ \E file_type \in FileTypes, color_data \in [has_cmyk : Tri],
          workflow_options \in [preserve_cmyk : Tri, convert_to_cmyk : Tri, allow_raster_conversion : Tri] :
          CallValidateColorWorkflow(file_type, color_data, workflow_options)

SpecFlow == InitLife /\ [][NextFlow]_vars

-----------------------------------------------------------------------------
(* The file type and colour conversions, called with well-formed and       *)
(* malformed arguments                                                     *)

\* None, a mime type in another case and one that is not in the mapping
MimeInputs ==
    {MimeTypes[i] : i \in 1..Len(MimeTypes)} \cup {"<absent>", "IMAGE/PNG", "text/plain"}

FilenameInputs ==
    {<<"l", "o", "g", "o", ".", "a", "i">>, <<"L", "O", "G", "O", ".", "A", "I">>,
     <<"l", "o", "g", "o", ".", "e", "p", "s">>, <<"l", "o", "g", "o", ".", "s", "v", "g">>,
     <<"l", "o", "g", "o", ".", "P", "n", "g">>, <<"l", "o", "g", "o", ".", "j", "p", "e", "g">>,
     <<"l", "o", "g", "o", ".", "j", "p", "g">>, <<"a", ".", "a", "i", ".", "p", "d", "f">>,
     <<"l", "o", "g", "o">>, <<"a", "i">>, <<"l", "o", "g", "o", ".">>,
     <<"l", "o", "g", "o", ".", "t", "x", "t">>}

ChannelSteps == 17

\* the channel values a call of rgb_to_cmyk is given: 0 to 255 in equal
\* steps, and values next to the ends and where rounding is a tie
Channels == {(255 * i) \div ChannelSteps : i \in 0..ChannelSteps} \cup {1, 3, 8, 254}

\* hex colours: the catalog's own, in both cases, colours off the catalog,
\* and strings that are not '#' and six hexadecimal digits
HexInputs ==
    {get_all_colors[i].hex : i \in 1..Len(get_all_colors)}
    \cup {lower(get_all_colors[i].hex) : i \in 1..Len(get_all_colors)}
    \cup {<<"F", "F", "0", "0", "0", "0">>, <<"#", "0", "1", "0", "1", "0", "1">>,
          <<"#", "7", "f", "7", "F", "7", "f">>, <<"#", "0", "0", "0", "0", "4", "0">>,
          <<"#", "f", "f", "0", "0", "0", "0", "a", "a">>, <<"f", "f", "f", "f", "f">>,
          <<"#", "#", "f", "f", "0", "0", "0", "0">>, <<"+", "f", "0", "0", "0", "0">>,
          <<"-", "1", "0", "0", "0", "0">>, <<" ", "f", "0", "0", "0", "0">>,
          <<"f", "f", "f">>, <<>>, <<"#">>, <<"g", "g", "0", "0", "0", "0">>,
          <<"f", "f", "0", "0">>, <<"#", "1", "2", "3", "4", "5", "g">>,
          <<"#", "0", "x", "1", "2", "3", "4">>}

CallGetFileType(mime_type, filename) ==
    /\ flow' = [NoCall EXCEPT !.fn = "get_file_type", !.mime_type = mime_type, !.filename = filename,
                              !.returned_type = get_file_type(mime_type, filename)]
    /\ UNCHANGED <<projects, logos, elements, nextId, gen, fs>>

CallRgbToCmyk(r, g, b) ==
    /\ \E out \in rgb_to_cmyk(r, g, b) :
          flow' = [NoCall EXCEPT !.fn = "rgb_to_cmyk", !.rgb = <<r, g, b>>,
                                 !.raised = out.raised, !.cmyk = out.cmyk]
    /\ UNCHANGED <<projects, logos, elements, nextId, gen, fs>>

CallHexToCmyk(hex_color) ==
    /\ \E out \in hex_to_cmyk(hex_color) :
          flow' = [NoCall EXCEPT !.fn = "hex_to_cmyk", !.hex_color = hex_color,
                                 !.raised = out.raised, !.cmyk = out.cmyk]
    /\ UNCHANGED <<projects, logos, elements, nextId, gen, fs>>

CallFindClosestColor(hex_color) ==
    /\ flow' = [NoCall EXCEPT !.fn = "find_closest_color", !.hex_color = hex_color,
                              !.closest = find_closest_color(hex_color)]
    /\ UNCHANGED <<projects, logos, elements, nextId, gen, fs>>

\* validate_color_workflow applied to what get_workflow_options recommends
\* for a file whose colour data agrees with has_cmyk_colors
CallValidateRecommended(file_type, has_cmyk_colors) ==
    /\ LET workflow_options == AsDict(get_workflow_options(file_type, has_cmyk_colors))
           color_data == [has_cmyk |-> IF has_cmyk_colors THEN "true" ELSE "false"]
       IN  flow' = [NoCall EXCEPT !.fn = "recommended", !.file_type = file_type,
                                  !.has_cmyk_colors = has_cmyk_colors,
                                  !.options = get_workflow_options(file_type, has_cmyk_colors),
                                  !.color_data = color_data, !.workflow_options = workflow_options,
                                  !.issues = validate_color_workflow(file_type, color_data, workflow_options)]
    /\ UNCHANGED <<projects, logos, elements, nextId, gen, fs>>

\* the caller takes the result; the next call starts from there
TakeResult ==
    /\ flow.fn # "none"
    /\ flow' = NoCall
    /\ UNCHANGED <<projects, logos, elements, nextId, gen, fs>>

NextColor ==
    \/ /\ flow.fn = "none"
       /\ \E mime_type \in MimeInputs, filename \in FilenameInputs : CallGetFileType(mime_type, filename)
    \/ /\ flow.fn = "none"
       /\ \E r \in Channels, g \in Channels, b \in Channels : CallRgbToCmyk(r, g, b)
    \/ /\ flow.fn = "none"
       /\ \E hex_color \in HexInputs : CallHexToCmyk(hex_color)
    \/ /\ flow.fn = "none"
       /\ \E hex_color \in HexInputs : CallFindClosestColor(hex_color)
    \/ /\ flow.fn = "none"
       /\ \E file_type \in FileTypes, has_cmyk_colors \in BOOLEAN :
             CallValidateRecommended(file_type, has_cmyk_colors)
    \/ TakeResult

SpecColor == InitLife /\ [][NextColor]_vars

-----------------------------------------------------------------------------
(* Logo uploads: files of every type, processed with and without failures *)

UploadFilenames == {"a.png", "f.jpg", "b.svg", "c.pdf", "d.ai", "e.eps", "g.txt"}

NextLogo ==
    \/ nextId.project <= 1 /\ create_project(Absent)
    \/ nextId.logo <= MaxLogoRows
          /\ \E p \in 1..2, filename \in UploadFilenames, cmyk \in BOOLEAN, fail \in Failures :
                upload_logo(p, filename, Processing(cmyk, fail))

SpecLogo == InitLife /\ [][NextLogo]_vars

-----------------------------------------------------------------------------
(* The canvas: projects, one logo, and canvas saves; a save before the     *)
(* logo is uploaded, or for an unknown project, fails                      *)

\* the element dicts of the canvas runs place logo 1 and differ in rotation
CanvasElements == [logoId : {1}, garmentColor : {"default"}, rotation : Rotations]

NextCanvas ==
    \/ nextId.project <= MaxCanvasProjects /\ create_project(Absent)
    \/ nextId.logo <= 1 /\ upload_logo(1, "a.png", Processing(FALSE, "none"))
    \/ \E p \in 1..(MaxCanvasProjects + 1), data \in SeqsUpTo(CanvasElements, MaxSaveLen) :
          /\ nextId.element + Len(data) - 1 <= MaxCanvasIds
          /\ save_canvas_elements(p, data)

SpecCanvas == InitLife /\ [][NextCanvas]_vars

-----------------------------------------------------------------------------
(* Ownership: projects with logos and canvas elements, saved over and      *)
(* deleted                                                                 *)

MaxOwnProjects == 2
MaxOwnLogos == 1
MaxOwnElementId == 3

\* a delete that leaves the logos of the project behind
unlinkKeepsLogos(project_id) ==
    /\ project_id \in DOMAIN projects
    /\ LET own_logos == {l \in DOMAIN logos : logos[l].project_id = project_id}
           own_elements == {e \in DOMAIN elements : elements[e].project_id = project_id}
           held == {e \in DOMAIN elements : elements[e].logo_id \in own_logos}
       IN  \/ /\ held \subseteq own_elements
              /\ projects' = [q \in DOMAIN projects \ {project_id} |-> projects[q]]
              /\ logos' = logos
              /\ elements' = [e \in DOMAIN elements \ own_elements |-> elements[e]]
           \/ /\ held # {}
              /\ UNCHANGED <<projects, logos, elements>>
    /\ UNCHANGED <<nextId, gen, fs, flow>>

\* artwork.project unlink: the rows whose project_id is ondelete='cascade'
\* go with the project.  logo_id of an element is required and so restricts
\* the delete of its logo: an element of another project that holds a logo
\* of this one makes the delete fail, and with elements of this project the
\* delete fails or not as the database deletes the logos or the elements first
unlink(project_id) ==
    /\ project_id \in DOMAIN projects
    /\ LET own_logos == {l \in DOMAIN logos : logos[l].project_id = project_id}
           own_elements == {e \in DOMAIN elements : elements[e].project_id = project_id}
           held == {e \in DOMAIN elements : elements[e].logo_id \in own_logos}
       IN  \/ /\ held \subseteq own_elements
              /\ projects' = [q \in DOMAIN projects \ {project_id} |-> projects[q]]
              /\ logos' = [l \in DOMAIN logos \ own_logos |-> logos[l]]
              /\ elements' = [e \in DOMAIN elements \ own_elements |-> elements[e]]
           \/ /\ held # {}
              /\ UNCHANGED <<projects, logos, elements>>
    /\ UNCHANGED <<nextId, gen, fs, flow>>

OwnElements == [logoId : 1..MaxOwnLogos, garmentColor : {"default"}, rotation : {0}]

NextOwn ==
    \/ nextId.project <= MaxOwnProjects /\ create_project(Absent)
    \/ /\ nextId.logo <= MaxOwnLogos
       /\ \E p \in 1..MaxOwnProjects : upload_logo(p, "a.png", Processing(FALSE, "none"))
    \/ \E p \in 1..MaxOwnProjects, data \in SeqsUpTo(OwnElements, MaxSaveLen) :
          /\ nextId.element + Len(data) - 1 <= MaxOwnElementId
          /\ save_canvas_elements(p, data)
    \/ \E p \in 1..MaxOwnProjects : unlink(p)

SpecOwn == InitLife /\ [][NextOwn]_vars

-----------------------------------------------------------------------------
(* The generator alone on snapshots that vary file types and geometry; the *)
(* logo files are in place or the directory is empty                       *)

InitPlace ==
    /\ projects = <<>>
    /\ logos = <<>>
    /\ elements = <<>>
    /\ nextId = [project |-> 1, logo |-> 1, element |-> 1]
    /\ gen = [g \in Gens |-> IdleGen]
    /\ flow = NoCall
    /\ fs \in {{}, PlacePaths}

NextPlace ==
    \/ \E project_data \in PlaceSnapshots : StartDirect(1, project_data)
    \/ Page1(1)
    \/ Page2(1)
    \/ Save(1)
    \/ Finish(1)

SpecPlace == InitPlace /\ [][NextPlace]_vars

-----------------------------------------------------------------------------
(* Properties of the generated document *)

ArtOps == {"drawImage", "saveState", "translate", "rotate", "restoreState"}

Ran(g) == gen[g].temp_dir # ""

\* the content of page 2 once it has been composed
Page2Ops(g) == IF Len(gen[g].pages) >= 2 THEN gen[g].pages[2] ELSE gen[g].code

HasLogo(g, i) == FindLogo(gen[g].snap.logos, gen[g].snap.canvas_elements[i].logoId) # NoLogo

EmbeddedOn(g, page_number, i) ==
    \E k \in 1..Len(gen[g].embedded) : gen[g].embedded[k].page = page_number /\ gen[g].embedded[k].el = i

\* C1: a generation that returns bytes has emitted exactly two pages, page 1
\* with art only and page 2 with the legend section after it, and a snapshot
\* without canvas elements returns such a document (two pages without drawing
\* content) whenever the output file can be written.
TwoPagesArtThenProduction ==
    \A g \in Gens :
        /\ gen[g].result = "bytes" =>
              /\ Len(gen[g].doc) = 2
              /\ \A k \in 1..Len(gen[g].doc[1]) : gen[g].doc[1][k].op \in ArtOps
              /\ \E k \in 1..Len(gen[g].doc[2]) : gen[g].doc[2][k].op = "setFont"
        /\ (gen[g].io = "ok" /\ gen[g].snap.canvas_elements = <<>>) =>
              /\ gen[g].result = "bytes"
              /\ gen[g].doc = << <<>>, <<Op("setFont", 0, "Helvetica", 10), Op("setFillColor", 0, "black", 0)>> >>

EmptyProjectGenerated ==
    \E g \in Gens : gen[g].pc = "done" /\ gen[g].result = "bytes" /\ gen[g].snap.canvas_elements = <<>>

\* C2: a failing embed of one element (missing file, failed conversion,
\* unreadable image) or a malformed colour leaves every other element
\* processed on both pages, and the generation returns the document unless
\* the output file itself cannot be written.
ElementFailureIsContained ==
    \A g \in Gens :
        LET n == Len(gen[g].snap.canvas_elements)
        IN  /\ gen[g].pc \in {"page1", "page2", "saved", "done"} /\ Ran(g) =>
                  \A i \in 1..n : HasLogo(g, i) => EmbeddedOn(g, 1, i)
            /\ gen[g].pc \in {"page2", "saved", "done"} /\ Ran(g) =>
                  \A i \in 1..n :
                      /\ HasLogo(g, i) => EmbeddedOn(g, 2, i)
                      /\ LET c == ElementGarmentColor(gen[g].snap.canvas_elements[i], gen[g].snap.garment_color)
                         IN  HexColorOk(c) =>
                                \E k \in 1..Len(Page2Ops(g)) : Page2Ops(g)[k] = Op("rect", i, c, 0)
            /\ gen[g].io = "ok" => gen[g].result = "bytes"

FailedElementThenEmbedded ==
    \E g \in Gens :
        /\ gen[g].pc = "done" /\ gen[g].result = "bytes"
        /\ \E k1, k2 \in 1..Len(gen[g].embedded) :
              /\ gen[g].embedded[k1].page = gen[g].embedded[k2].page
              /\ gen[g].embedded[k1].el < gen[g].embedded[k2].el
              /\ gen[g].embedded[k1].res = "failed"
              /\ gen[g].embedded[k2].res = "embedded"
        /\ \E i \in 1..Len(gen[g].snap.canvas_elements) : gen[g].snap.canvas_elements[i].garmentColor = "notacolor"

\* C3: when generate_pdf has finished, by return or by exception, no file
\* that the generation created exists any more.
CreatedFilesDeleted ==
    \A g \in Gens : gen[g].pc = "done" /\ Ran(g) => gen[g].created \cap fs = {}


\* C4: for an existing project the endpoint answers with a PDF, the
\* generator's bytes when the generator is available and returns, the fixed
\* fallback PDF when it is unavailable or raises, and never with an error;
\* for an unknown project it answers not-found without any generation.
EndpointAnswersPdfOrNotFound ==
    \A g \in Gens :
        gen[g].origin = "endpoint" /\ gen[g].pc = "done" =>
            IF gen[g].req \in DOMAIN projects
            THEN /\ gen[g].response \in {"pdf", "fallback_pdf"}
                 /\ gen[g].response = "pdf" <=> (gen[g].src.import = "ok" /\ gen[g].result = "bytes")
                 /\ gen[g].response = "fallback_pdf" <=> (gen[g].src.import # "ok" \/ gen[g].result = "raise")
            ELSE /\ gen[g].response = "not_found"
                 /\ ~Ran(g) /\ gen[g].pages = <<>> /\ gen[g].embedded = <<>> /\ gen[g].result = "none"

FallbackAfterGeneratorRaised ==
    \E g \in Gens :
        /\ gen[g].origin = "endpoint" /\ gen[g].pc = "done"
        /\ gen[g].req \in DOMAIN projects
        /\ gen[g].result = "raise" /\ gen[g].response = "fallback_pdf"

Active(g) == gen[g].pc \in {"ready", "page1", "page2", "saved"}

\* C5: two generations that overlap in time work in different temporary
\* directories and have no temporary path in common among those they read
\* or write.
OverlappingGenerationsShareNoPath ==
    \A g1, g2 \in Gens :
        (g1 # g2 /\ Active(g1) /\ Active(g2)) =>
            /\ gen[g1].temp_dir # gen[g2].temp_dir
            /\ gen[g1].touched \cap gen[g2].touched = {}

\* C6: in a generation started by the endpoint, an element is handed to
\* _embed_single_logo on page 1 exactly when its logo is one of the
\* project's logos.
ProjectLogosAreResolved ==
    \A g \in Gens :
        (gen[g].origin = "endpoint" /\ Ran(g) /\ gen[g].pc \in {"page1", "page2", "saved", "done"}) =>
            \A i \in 1..Len(gen[g].src.rows) :
                gen[g].src.rows[i].logo_id \in gen[g].src.logo_ids <=> EmbeddedOn(g, 1, i)

\* the garment colour of a stored element: its override, else the project's colour
ResolvedColor(g, i) ==
    IF Truthy(gen[g].src.rows[i].garment_color)
    THEN gen[g].src.rows[i].garment_color
    ELSE gen[g].src.garment_color

\* C7: in a generation started by the endpoint, page 2 has for every element
\* a background rectangle and a legend line in the element's override colour
\* when it has one and in the project's colour otherwise.
OverrideElseProjectColour ==
    \A g \in Gens :
        (gen[g].origin = "endpoint" /\ Ran(g) /\ gen[g].pc \in {"page2", "saved", "done"}) =>
            \A i \in 1..Len(gen[g].src.rows) :
                HexColorOk(ResolvedColor(g, i)) =>
                    /\ \E k \in 1..Len(Page2Ops(g)) : Page2Ops(g)[k] = Op("rect", i, ResolvedColor(g, i), 0)
                    /\ \E k \in 1..Len(gen[g].legend) : gen[g].legend[k].color = ResolvedColor(g, i)

\* the garment colour strings the elements of a snapshot use
UsedColors(g) ==
    {ElementGarmentColor(gen[g].snap.canvas_elements[i], gen[g].snap.garment_color) :
        i \in 1..Len(gen[g].snap.canvas_elements)}

LinesFor(g, c) == {k \in 1..Len(gen[g].legend) : gen[g].legend[k].color = c}

Composed(g) == Ran(g) /\ gen[g].pc \in {"page2", "saved", "done"}

FirstUse(g, c) ==
    CHOOSE i \in 1..Len(gen[g].snap.canvas_elements) :
        /\ ElementGarmentColor(gen[g].snap.canvas_elements[i], gen[g].snap.garment_color) = c
        /\ \A j \in 1..(i - 1) :
              ElementGarmentColor(gen[g].snap.canvas_elements[j], gen[g].snap.garment_color) # c

\* C9: the legend lines are written in the order in which their colours
\* first appear in the element list.
LegendInFirstAppearanceOrder ==
    \A g \in Gens :
        Composed(g) =>
            \A a, b \in 1..Len(gen[g].legend) :
                a < b => FirstUse(g, gen[g].legend[a].color) < FirstUse(g, gen[g].legend[b].color)

\* C10: the legend line of a catalogued colour is its display name followed
\* by its CMYK label, "Red C:0 M:100 Y:100 K:0" for #FF0000.
LegendLineIsNameAndCmyk ==
    \A g \in Gens :
        Composed(g) =>
            \A k \in 1..Len(gen[g].legend) :
                LET entry == find_color_by_hex(gen[g].legend[k].color)
                IN  entry # NoColorEntry =>
                        gen[g].legend[k].label = entry.name \o " " \o get_cmyk_string(entry)


Page1Ops(g) == IF Len(gen[g].pages) >= 1 THEN gen[g].pages[1] ELSE gen[g].code

\* the drawImage calls of element i on page 1, in the order they were made
ImagesOf(g, i) == SelectSeq(Page1Ops(g), LAMBDA o : o.op = "drawImage" /\ o.el = i)

\* element i reached drawImage on page 1 and the image was drawn
DrawnOn1(g, i) ==
    \E k \in 1..Len(gen[g].embedded) :
        /\ gen[g].embedded[k].page = 1 /\ gen[g].embedded[k].el = i
        /\ gen[g].embedded[k].route = "raster" /\ gen[g].embedded[k].res = "embedded"

\* the element of row r and column c of an imposition grid, in canvas coordinates
GridCell(element, r, c) ==
    [element EXCEPT !.x = element.x + c * (element.width + element.impositionSpacingX),
                    !.y = element.y + r * (element.height + element.impositionSpacingY)]

\* C11: an imposed element whose image is drawn is drawn R*C times on page 1,
\* row by row, the placement of row r and column c at the page position of
\* the base shifted by (c*(width+spacing_x), r*(height+spacing_y)).
ImpositionDrawsGrid ==
    \A g \in Gens :
        (Ran(g) /\ gen[g].pc \in {"page1", "page2", "saved", "done"}) =>
            \A i \in 1..Len(gen[g].snap.canvas_elements) :
                LET element == gen[g].snap.canvas_elements[i]
                    R == element.impositionRows
                    C == element.impositionCols
                IN  (element.isImposition /\ element.rotation = 0 /\ DrawnOn1(g, i)) =>
                        /\ Len(ImagesOf(g, i)) = R * C
                        /\ \A r \in 0..(R - 1), c \in 0..(C - 1) :
                              LET pos == _calculate_position(GridCell(element, r, c), gen[g].snap.template_size)
                              IN  /\ ImagesOf(g, i)[r * C + c + 1].x = pos.x
                                  /\ ImagesOf(g, i)[r * C + c + 1].y = pos.y


\* C12: every image drawn on page 1 is positioned at x_page = x*2.834 and
\* y_page = (H - y - h)*2.834 (in thousandths of a point: factor 2834), H the
\* template height and h the element height; a rotated element is drawn
\* around its centre, so its translation plus its image offset is that point.
PagePositionFromCanvas ==
    \A g \in Gens :
        (Ran(g) /\ gen[g].pc \in {"page1", "page2", "saved", "done"}) =>
            \A i \in 1..Len(gen[g].snap.canvas_elements) :
                LET element == gen[g].snap.canvas_elements[i]
                    H == gen[g].snap.template_size.height
                    x_page == element.x * 2834
                    y_page == (H - element.y - element.height) * 2834
                    moves == SelectSeq(Page1Ops(g), LAMBDA o : o.op = "translate" /\ o.el = i)
                IN  DrawnOn1(g, i) =>
                        /\ Len(ImagesOf(g, i)) >= 1
                        /\ \A k \in 1..Len(ImagesOf(g, i)) :
                              IF element.rotation = 0
                              THEN ImagesOf(g, i)[k].x = x_page /\ ImagesOf(g, i)[k].y = y_page
                              ELSE /\ Len(moves) = 1
                                   /\ moves[1].x + ImagesOf(g, i)[k].x = x_page
                                   /\ moves[1].y + ImagesOf(g, i)[k].y = y_page

CanvasOriginLandsAtTop ==
    \E g \in Gens :
        /\ gen[g].pc = "done" /\ gen[g].result = "bytes"
        /\ Len(gen[g].snap.canvas_elements) = 1
        /\ gen[g].snap.template_size.height = 297
        /\ gen[g].snap.canvas_elements[1].x = 0 /\ gen[g].snap.canvas_elements[1].y = 0
        /\ gen[g].snap.canvas_elements[1].height = 50 /\ gen[g].snap.canvas_elements[1].rotation = 0
        /\ Len(gen[g].doc[1]) = 1
        /\ gen[g].doc[1][1].op = "drawImage"
        /\ gen[g].doc[1][1].y = (297 * 2834) - (50 * 2834)

\* C13: _embed_raster_content is called only for png and jpeg logos.
RasterPathOnlyForRasterFiles ==
    \A g \in Gens :
        \A k \in 1..Len(gen[g].embedded) :
            gen[g].embedded[k].route = "raster" =>
                FileExt(FindLogo(gen[g].snap.logos, gen[g].embedded[k].logo).filename) \in {"png", "jpg", "jpeg"}


ProjectStates == {"draft", "confirmed", "done", "cancelled"}

\* C14: a project's state is one of the four, a new project is in draft, and
\* a step that changes the state of a project is action_confirm,
\* action_cancel, action_done or action_reset_to_draft on that project.
StateChangesOnlyByActions ==
    /\ [](\A p \in DOMAIN projects : projects[p].state \in ProjectStates)
    /\ [][\A p \in DOMAIN projects' :
              /\ p \notin DOMAIN projects => projects'[p].state = "draft"
              /\ (p \in DOMAIN projects /\ projects'[p].state # projects[p].state) =>
                    \/ action_confirm(p) /\ projects'[p].state = "confirmed"
                    \/ action_cancel(p) /\ projects'[p].state = "cancelled"
                    \/ action_done(p) /\ projects'[p].state = "done"
                    \/ action_reset_to_draft(p) /\ projects'[p].state = "draft"]_vars

ConfirmedProjectWasServed ==
    \E p \in DOMAIN projects :
        /\ projects[p].state = "confirmed"
        /\ projects[p].garment_color = "#FF0000"
        /\ projects[p].sale_order_id = 1
        /\ \E e \in DOMAIN elements : elements[e].project_id = p
        /\ gen[1].pc = "done" /\ gen[1].req = p /\ gen[1].response = "pdf"


\* the rows of a project's canvas elements in the order of canvas_element_ids
Listing(p) == [k \in 1..Len(canvas_element_ids(p)) |-> elements[canvas_element_ids(p)[k]]]

OfProject(p) == {e \in DOMAIN elements : elements[e].project_id = p}

OfOthers(p) ==
    [e \in {e \in DOMAIN elements : elements[e].project_id # p} |-> elements[e]]

\* C15: a canvas save that succeeds leaves the project with exactly the
\* submitted elements in the submitted order, none of them a row from before
\* the save, and leaves the rows of every other project as they were; a save
\* that fails leaves the table as it was; nothing else changes the table.
SaveReplacesCanvas ==
    [][/\ \A p \in 1..(MaxCanvasProjects + 1), data \in SeqsUpTo(CanvasElements, MaxSaveLen) :
             save_canvas_elements(p, data) =>
                 IF p \in DOMAIN projects /\ \A k \in 1..Len(data) : data[k].logoId \in DOMAIN logos
                 THEN /\ Listing(p)' = [k \in 1..Len(data) |-> create_from_canvas_data(p, data[k])]
                      /\ OfProject(p)' \cap DOMAIN elements = {}
                      /\ OfOthers(p)' = OfOthers(p)
                 ELSE elements' = elements
       /\ elements' # elements =>
             \E p \in DOMAIN projects, data \in SeqsUpTo(CanvasElements, MaxSaveLen) :
                 save_canvas_elements(p, data)]_vars

SecondSaveReplacedFirst ==
    \E p, q \in DOMAIN projects :
        /\ p # q
        /\ OfProject(q) = {1}
        /\ OfProject(p) = {3, 4}
        /\ Listing(p)[1].rotation = 90 /\ Listing(p)[2].rotation = 0


\* C16: every processed logo row has is_cmyk_preserved only together with
\* is_vector and has_cmyk, and never both is_vector and is_raster.
ProcessedFlagsConsistent ==
    \A l \in DOMAIN logos :
        /\ logos[l].is_cmyk_preserved => (logos[l].is_vector /\ logos[l].has_cmyk)
        /\ ~(logos[l].is_vector /\ logos[l].is_raster)


\* C17: two generations whose snapshots differ only in lock flags, and to
\* which the environment answers alike (the same embeds succeed, the legend
\* colours are iterated in the same order, the same writes succeed), emit
\* the same drawing operations on the same pages.
LocksDoNotChangeDrawing ==
    \A g1, g2 \in Gens :
        (/\ gen[g1].pc = "done" /\ gen[g2].pc = "done"
         /\ Ran(g1) /\ Ran(g2)
         /\ Unlocked(gen[g1].snap) = Unlocked(gen[g2].snap)
         /\ gen[g1].embedded = gen[g2].embedded
         /\ gen[g1].legend = gen[g2].legend
         /\ gen[g1].io = gen[g2].io) =>
            /\ gen[g1].pages = gen[g2].pages
            /\ gen[g1].doc = gen[g2].doc

LockedTwinDrawnAlike ==
    /\ gen[1].pc = "done" /\ gen[2].pc = "done"
    /\ gen[1].result = "bytes" /\ gen[2].result = "bytes"
    /\ Len(gen[1].snap.canvas_elements) = 1
    /\ gen[1].snap.canvas_elements[1].rotation = 90
    /\ gen[1].snap.canvas_elements[1].locks = {}
    /\ gen[2].snap.canvas_elements[1].locks = LockFlags
    /\ Len(gen[1].doc[1]) = 5
    /\ gen[1].doc = gen[2].doc


\* C18: should_preserve_cmyk returns true exactly for one of the four vector
\* types together with has_cmyk_colors, and false for every raster, mixed or
\* unknown type.
PreserveIffVectorWithCmyk ==
    flow.fn = "should_preserve_cmyk" =>
        /\ flow.preserve <=>
              (/\ flow.file_type \in {"vector-svg", "vector-pdf", "vector-ai", "vector-eps"}
               /\ flow.has_cmyk_colors)
        /\ flow.file_type \in {"raster-png", "raster-jpeg", "mixed-content", "unknown"} => ~flow.preserve

RasterWithCmykNotPreserved ==
    /\ flow.fn = "should_preserve_cmyk"
    /\ flow.file_type = "raster-png" /\ flow.has_cmyk_colors
    /\ ~flow.preserve

\* C19: get_workflow_options gives a vector type allow_raster_conversion =
\* false, convert_to_cmyk = not has_cmyk_colors and preserve_cmyk =
\* has_cmyk_colors, and a raster type convert_to_cmyk = true,
\* allow_raster_conversion = true and preserve_cmyk = false.
OptionsByFileKind ==
    flow.fn = "get_workflow_options" =>
        /\ flow.file_type \in {"vector-svg", "vector-pdf", "vector-ai", "vector-eps"} =>
              flow.options = [preserve_cmyk |-> flow.has_cmyk_colors,
                              convert_to_cmyk |-> ~flow.has_cmyk_colors,
                              allow_raster_conversion |-> FALSE]
        /\ flow.file_type \in {"raster-png", "raster-jpeg"} =>
              flow.options = [preserve_cmyk |-> FALSE, convert_to_cmyk |-> TRUE,
                              allow_raster_conversion |-> TRUE]

VectorWithCmykKeepsVector ==
    /\ flow.fn = "get_workflow_options"
    /\ flow.file_type = "vector-eps" /\ flow.has_cmyk_colors
    /\ flow.options.preserve_cmyk /\ ~flow.options.convert_to_cmyk /\ ~flow.options.allow_raster_conversion

Reported(msg) == \E k \in 1..Len(flow.issues) : flow.issues[k] = msg

\* C20: validate_color_workflow reports each of the three rules exactly when
\* it is violated, each at most once and nothing else, so the list is empty
\* exactly when no rule is violated.
IssuesAreTheViolatedRules ==
    flow.fn = "validate_color_workflow" =>
        LET a == /\ flow.file_type \in {"vector-svg", "vector-pdf", "vector-ai", "vector-eps"}
                 /\ flow.workflow_options.allow_raster_conversion = "true"
            b == /\ flow.workflow_options.preserve_cmyk = "true"
                 /\ flow.color_data.has_cmyk # "true"
            c == /\ flow.workflow_options.preserve_cmyk = "true"
                 /\ flow.workflow_options.convert_to_cmyk = "true"
            count == (IF a THEN 1 ELSE 0) + (IF b THEN 1 ELSE 0) + (IF c THEN 1 ELSE 0)
        IN  /\ Reported(RasterizedVector) <=> a
            /\ Reported(PreserveWithoutCmyk) <=> b
            /\ Reported(PreserveAndConvert) <=> c
            /\ Len(flow.issues) = count
            /\ flow.issues = <<>> <=> ~(a \/ b \/ c)

AllThreeRulesReported ==
    /\ flow.fn = "validate_color_workflow"
    /\ flow.file_type = "vector-svg"
    /\ flow.workflow_options = [preserve_cmyk |-> "true", convert_to_cmyk |-> "true",
                                allow_raster_conversion |-> "true"]
    /\ flow.color_data.has_cmyk = "false"
    /\ Len(flow.issues) = 3


EndsWith(s, suffix) ==
    /\ Len(s) >= Len(suffix)
    /\ lower(SubSeq(s, Len(s) - Len(suffix) + 1, Len(s))) = suffix

\* C21: get_file_type decides by the mime type when the mapping knows it and
\* by the extension only otherwise, gives unknown when neither is known, and
\* for application/postscript and application/illustrator gives vector-ai
\* when the extension is ai and vector-eps otherwise.
FileTypeByMimeThenExtension ==
    flow.fn = "get_file_type" =>
        LET mime == flow.mime_type
            name == flow.filename
            byMime ==
                CASE mime = "image/svg+xml" -> "vector-svg"
                  [] mime = "application/pdf" -> "vector-pdf"
                  [] mime \in {"application/postscript", "application/illustrator"} ->
                         IF EndsWith(name, <<".", "a", "i">>) THEN "vector-ai" ELSE "vector-eps"
                  [] mime = "application/x-illustrator" -> "vector-ai"
                  [] mime = "image/png" -> "raster-png"
                  [] mime \in {"image/jpeg", "image/jpg"} -> "raster-jpeg"
                  [] OTHER -> "none"
            byExtension ==
                CASE EndsWith(name, <<".", "s", "v", "g">>) -> "vector-svg"
                  [] EndsWith(name, <<".", "p", "d", "f">>) -> "vector-pdf"
                  [] EndsWith(name, <<".", "a", "i">>) -> "vector-ai"
                  [] EndsWith(name, <<".", "e", "p", "s">>) -> "vector-eps"
                  [] EndsWith(name, <<".", "p", "n", "g">>) -> "raster-png"
                  [] EndsWith(name, <<".", "j", "p", "g">>) -> "raster-jpeg"
                  [] EndsWith(name, <<".", "j", "p", "e", "g">>) -> "raster-jpeg"
                  [] OTHER -> "unknown"
        IN  flow.returned_type = IF byMime # "none" THEN byMime ELSE byExtension

PostscriptNamedAiIsIllustrator ==
    /\ flow.fn = "get_file_type"
    /\ flow.mime_type = "application/postscript"
    /\ flow.filename = <<"L", "O", "G", "O", ".", "A", "I">>
    /\ flow.returned_type = "vector-ai"

\* C22: for channel values in 0..255 rgb_to_cmyk returns four integers in
\* 0..100, gives (0,0,0,100) for black and (0,0,0,0) for white, and never
\* divides by zero.
RgbToCmykInRange ==
    flow.fn = "rgb_to_cmyk" =>
        /\ flow.raised = "none"
        /\ Len(flow.cmyk) = 4
        /\ \A i \in 1..4 : flow.cmyk[i] \in 0..100
        /\ flow.rgb = <<0, 0, 0>> => flow.cmyk = <<0, 0, 0, 100>>
        /\ flow.rgb = <<255, 255, 255>> => flow.cmyk = <<0, 0, 0, 0>>

WhiteConverted ==
    /\ flow.fn = "rgb_to_cmyk"
    /\ flow.rgb = <<255, 255, 255>>
    /\ flow.cmyk = <<0, 0, 0, 0>>

\* '#' at most once, then exactly six hexadecimal digits
WellFormedHex(hex_color) ==
    LET digits == IF Len(hex_color) > 0 /\ hex_color[1] = "#" THEN Tail(hex_color) ELSE hex_color
    IN  Len(digits) = 6 /\ \A i \in 1..6 : IsHexDigit(digits[i])

\* C23: hex_to_cmyk returns (0,0,0,100) for every input that is not six
\* hexadecimal digits after an optional '#', and never raises.
MalformedHexIsBlack ==
    (flow.fn = "hex_to_cmyk" /\ ~WellFormedHex(flow.hex_color)) =>
        flow.raised = "none" /\ flow.cmyk = <<0, 0, 0, 100>>

Differs(a, b) == IF a >= b THEN a - b ELSE b - a

\* C24: for every catalog entry, hex_to_cmyk of its hex is within 1 of its
\* stored CMYK on each channel.
CatalogHexReproducesCmyk ==
    flow.fn = "hex_to_cmyk" =>
        \A e \in 1..Len(get_all_colors) :
            get_all_colors[e].hex = flow.hex_color =>
                /\ flow.raised = "none"
                /\ \A i \in 1..4 : Differs(flow.cmyk[i], get_all_colors[e].cmyk[i]) <= 1


\* the RGB value of '#' and six hexadecimal digits
RgbOf(hex_color) ==
    LET d == IF hex_color[1] = "#" THEN Tail(hex_color) ELSE hex_color
    IN  <<16 * DigitValue(d[1]) + DigitValue(d[2]), 16 * DigitValue(d[3]) + DigitValue(d[4]),
          16 * DigitValue(d[5]) + DigitValue(d[6])>>

\* C25: for a valid hex find_closest_color returns a catalog entry at minimal
\* RGB distance from the target, the first such entry in catalog order; for a
\* hex of the catalog that is the entry find_color_by_hex returns, so
\* "#000000" yields an entry whose hex is #000000.
ClosestIsFirstNearest ==
    (flow.fn = "find_closest_color" /\ WellFormedHex(flow.hex_color)) =>
        LET target == RgbOf(flow.hex_color)
            Distance(i) == color_distance(target, RgbOf(get_all_colors[i].hex))
        IN  /\ flow.closest \in 1..Len(get_all_colors)
            /\ \A j \in 1..Len(get_all_colors) : Distance(flow.closest) <= Distance(j)
            /\ \A j \in 1..(flow.closest - 1) : Distance(j) > Distance(flow.closest)
            /\ FindColorByHex(flow.hex_color) # 0 => flow.closest = FindColorByHex(flow.hex_color)
            /\ target = <<0, 0, 0>> =>
                  get_all_colors[flow.closest].hex = <<"#", "0", "0", "0", "0", "0", "0">>

BlackFoundAmongTwoBlacks ==
    /\ flow.fn = "find_closest_color"
    /\ flow.hex_color = <<"#", "0", "0", "0", "0", "0", "0">>
    /\ get_all_colors[28].hex = flow.hex_color
    /\ flow.closest = 1

\* C30: the options get_workflow_options returns pass validate_color_workflow
\* with no issue when color_data.has_cmyk equals has_cmyk_colors, and never
\* have preserve_cmyk and convert_to_cmyk both true.
RecommendedOptionsAreValid ==
    flow.fn = "recommended" =>
        /\ flow.issues = <<>>
        /\ ~(flow.options.preserve_cmyk /\ flow.options.convert_to_cmyk)

PreservingOptionsValidated ==
    /\ flow.fn = "recommended"
    /\ flow.file_type = "vector-pdf" /\ flow.has_cmyk_colors
    /\ flow.color_data.has_cmyk = "true"
    /\ flow.options.preserve_cmyk
    /\ flow.issues = <<>>


\* C26: the legend lines are stacked upward from the baseline at the line
\* pitch: the n-th line written (n = 0, 1, ...) is at baseline + n * pitch, so
\* every line is on the page and consecutive lines are one pitch apart.
LegendStackedUpward ==
    \A g \in Gens :
        Composed(g) =>
            \A n \in 1..Len(gen[g].legend) :
                /\ gen[g].legend[n].y = y_pos + (n - 1) * LinePitch
                /\ gen[g].legend[n].y >= 0

\* C27: page 1 receives no background rectangle and no legend line; on page 2
\* every rectangle is drawn before any logo is embedded and every logo is
\* embedded before any legend line is written.
PageTwoLayersInOrder ==
    \A g \in Gens :
        Ran(g) =>
            /\ \A k \in 1..Len(Page1Ops(g)) : Page1Ops(g)[k].op \notin {"rect", "drawString"}
            /\ \A k, j \in 1..Len(Page2Ops(g)) :
                  k < j =>
                      /\ ~(Page2Ops(g)[k].op \in ArtOps /\ Page2Ops(g)[j].op = "rect")
                      /\ ~(Page2Ops(g)[k].op = "drawString" /\ Page2Ops(g)[j].op \in ArtOps \cup {"rect"})

ThreeLayersOnPageTwo ==
    /\ Composed(1)
    /\ \E k \in 1..Len(Page1Ops(1)) : Page1Ops(1)[k].op = "drawImage"
    /\ \E k, j, m \in 1..Len(Page2Ops(1)) :
          /\ Page2Ops(1)[k].op = "rect"
          /\ Page2Ops(1)[j].op = "drawImage"
          /\ Page2Ops(1)[m].op = "drawString"

\* C29: embedding one element leaves the canvas transform as it was: each
\* saveState of a rotated element is followed by its restoreState before
\* anything of another element is drawn, also when drawing its image fails.
TransformRestoredPerElement ==
    \A g \in Gens :
        Ran(g) =>
            \A ops \in {Page1Ops(g), Page2Ops(g)} :
                \A k \in 1..Len(ops) :
                    ops[k].op = "saveState" =>
                        \E j \in (k + 1)..Len(ops) :
                            /\ ops[j].op = "restoreState"
                            /\ \A m \in k..j : ops[m].el = ops[k].el /\ ops[m].op \in ArtOps


\* C28: after a project is deleted no canvas element and no logo of it
\* remains, and deleting or replacing canvas elements never deletes a logo,
\* also not one that several elements refer to.
ProjectOwnsElementsAndLogos ==
    /\ [](/\ \A e \in DOMAIN elements : elements[e].project_id \in DOMAIN projects
          /\ \A l \in DOMAIN logos : logos[l].project_id \in DOMAIN projects)
    /\ [][(elements' # elements /\ DOMAIN projects' = DOMAIN projects) => logos' = logos]_vars

ProjectDeletedWithItsRows ==
    /\ projects = <<>> /\ nextId.project = 2
    /\ logos = <<>> /\ nextId.logo = 2
    /\ elements = <<>> /\ nextId.element = 3

====
